---- MODULE Spec2Model ----
(***************************************************************************)
(* A model of the resumable generation pipeline of vercelchat2025:         *)
(*   - the Active-Prompt Store (admin_prompts table and its admin routes), *)
(*   - the Usage Ledger and the admission check of the chat route,         *)
(*   - the chat route's turn pipeline, the stream broker and the           *)
(*     Completion Finalizer.                                               *)
(* Each subsystem has its own specification over the shared variables.     *)
(***************************************************************************)
EXTENDS Integers, Sequences, FiniteSets, TLC

(***************************************************************************)
(* Bounds of the model.                                                    *)
(***************************************************************************)
MaxPrompts == 2
MaxVersion == 1
MaxTx == 2
MaxRecords == 2
MaxTicks == 3
MaxTurns == 1
MaxChunks == 2
MaxReconnects == 1

(***************************************************************************)
(* JSON values of request bodies: one record shape per JavaScript type, so *)
(* that typeof, truthiness and === undefined are decided as the routes     *)
(* decide them.                                                            *)
(***************************************************************************)
JUndefined == [t |-> "undefined"]
JString(s) == [t |-> "string", s |-> s]
JBoolean(b) == [t |-> "boolean", b |-> b]
JNumber == [t |-> "number"]

Null == [t |-> "null"]

Trim_Keeps(s) == s

\* String.prototype.trim on the texts the model sends.
Trim(s) ==
    CASE s = " A " -> "A"
      [] s = "  " -> ""
      [] OTHER -> s

\* JavaScript truthiness of a body value (a number in the model is non-zero).
Truthy(v) ==
    CASE v.t = "undefined" -> FALSE
      [] v.t = "string" -> v.s # ""
      [] v.t = "boolean" -> v.b
      [] OTHER -> TRUE

TextInputs == {JUndefined, JNumber, JString(""), JString("  "),
               JString(" A "), JString("B")}
ActiveInputs == {JUndefined, JNumber, JBoolean(TRUE), JBoolean(FALSE)}

(***************************************************************************)
(* Users and sessions.  auth() yields a session with the user's id and     *)
(* type, or none.                                                          *)
(***************************************************************************)
Users == {"stu", "reg", "adm"}
NoSession == "anon"
Sessions == Users \cup {NoSession}
AdminSessions == {NoSession, "reg", "adm"}

UserType(u) ==
    CASE u = "stu" -> "student"
      [] u = "reg" -> "regular"
      [] u = "adm" -> "admin"

IsAdmin_AnySignedIn(session) == session # NoSession

IsAdmin(session) == session # NoSession /\ UserType(session) = "admin"

\* The bodies a request of this session is sent with: a handler that rejects
\* the session returns before it reads the body, so one body stands for all.
BodiesOf(session, inputs) == IF IsAdmin(session) THEN inputs ELSE {JUndefined}

\* Likewise the text of a body is validated before its isActive is, so one
\* isActive stands for all behind a text the handler rejects.
TextPasses(text) == text.t = "string" /\ Trim(text.s) # ""

FlagsOf(session, textOk) ==
    IF IsAdmin(session) /\ textOk THEN ActiveInputs ELSE {JUndefined}

PromptIds == 1..MaxPrompts

\* No assembler read and no admin mutation is between two of its steps.
NoFlights ==
    [read |-> [pc |-> "idle", missed |-> FALSE, row |-> [t |-> "null"]],
     write |-> [pc |-> "idle", status |-> 0, invalidates |-> FALSE,
                before |-> [t |-> "null"]]]

VARIABLES
    prompts,       \* admin_prompts table: id -> row (committed rows)
    nextPromptId,  \* ids (and creation times) handed out so far
    cache,         \* the assembler's process-wide cached active prompt
    lastReq,       \* the last admin request and its response
    txs,           \* storage transactions in progress on admin_prompts
    now,           \* the clock, in milliseconds
    usage,         \* token_usage table, in insertion order
    resultShape,   \* the shape the storage driver gives db.execute results
    lastSum,       \* the last ledger query and what it returned
    chats,         \* Chat table: chat id -> row
    messages,      \* Message_v2 table, in insertion order
    memories,      \* memories table, in insertion order
    streams,       \* Stream table, in insertion order
    calls,         \* calls made to the language and embedding models
    turns,         \* POST /api/chat requests: position and request data
    gens,          \* the generation each turn started: state and output
    brokerUp,      \* whether a resumable-stream context can be created
    broker,        \* resumable streams the broker knows, by stream id
    cons,          \* consumers of response streams
    votes,         \* Vote_v2 table
    deletes,       \* DELETE /api/chat requests: position and request data
    flights        \* an assembler read and an admin mutation in progress

adminVars == <<prompts, nextPromptId, cache, lastReq>>
ledgerVars == <<now, usage, resultShape, lastSum>>
storeVars == <<chats, messages, memories, streams>>
streamVars == <<gens, broker, cons>>
otherVars == <<votes, deletes, flights>>
chatVars == <<storeVars, calls, turns, brokerUp, otherVars, streamVars>>
restVars == <<ledgerVars, chatVars>>

(***************************************************************************)
(* admin_prompts queries (src/lib/db/queries.ts).  A store is a function   *)
(* from the ids of its rows to the rows.                                   *)
(***************************************************************************)
ActiveIds(store) == {i \in DOMAIN store : store[i].active}

\* A deactivation that touches no row.
DeactivateAll_Skipped(store) == store

\* UPDATE admin_prompts SET active = false WHERE active = true
DeactivateAll(store) ==
    [i \in DOMAIN store |-> [store[i] EXCEPT !.active = FALSE]]

InsertPrompt(store, id, row) ==
    [i \in DOMAIN store \cup {id} |-> IF i = id THEN row ELSE store[i]]

\* An insert that does not clear the active flags first.
createAdminPrompt_KeepsActive(store, id, text, userId, isActive) ==
    LET row == [text |-> text, active |-> isActive, version |-> 1,
                createdAt |-> id, createdBy |-> userId]
    IN  [store |-> InsertPrompt(store, id, row), result |-> row]

createAdminPrompt(store, id, text, userId, isActive) ==
    LET cleared == IF isActive THEN DeactivateAll(store) ELSE store
        row == [text |-> text, active |-> isActive, version |-> 1,
                createdAt |-> id, createdBy |-> userId]
    IN  [store |-> InsertPrompt(cleared, id, row), result |-> row]

\* An update that increments the version whenever it writes the row.
updateAdminPrompt_BumpsAlways(store, promptId, text, isActive, incrementVersion) ==
    LET cleared == IF isActive = JBoolean(TRUE) THEN DeactivateAll(store) ELSE store
        apply(row) ==
            [row EXCEPT
                !.text = IF text # JUndefined THEN text.s ELSE @,
                !.active = IF isActive # JUndefined THEN isActive.b ELSE @,
                !.version = @ + 1]
    IN  IF promptId \notin DOMAIN cleared
        THEN [store |-> cleared, result |-> Null]
        ELSE [store |-> [cleared EXCEPT ![promptId] = apply(@)],
              result |-> apply(cleared[promptId])]

\* text and isActive are body values (JUndefined when absent);
\* incrementVersion is TRUE or FALSE (absent).
updateAdminPrompt(store, promptId, text, isActive, incrementVersion) ==
    LET cleared == IF isActive = JBoolean(TRUE) THEN DeactivateAll(store) ELSE store
        nothing == text = JUndefined /\ isActive = JUndefined /\ ~incrementVersion
        apply(row) ==
            [row EXCEPT
                !.text = IF text # JUndefined THEN text.s ELSE @,
                !.active = IF isActive # JUndefined THEN isActive.b ELSE @,
                !.version = IF incrementVersion THEN @ + 1 ELSE @]
    IN  IF promptId \notin DOMAIN cleared
        THEN [store |-> cleared, result |-> Null]
        ELSE IF nothing
        THEN [store |-> cleared, result |-> cleared[promptId]]
        ELSE [store |-> [cleared EXCEPT ![promptId] = apply(@)],
              result |-> apply(cleared[promptId])]

\* A delete that would hand the active flag on to the rows that remain.
deleteAdminPrompt_Promotes(store, promptId) ==
    LET rest == DOMAIN store \ {promptId}
    IN  IF promptId \in DOMAIN store
        THEN [store |-> [i \in rest |->
                            IF store[promptId].active
                            THEN [store[i] EXCEPT !.active = TRUE]
                            ELSE store[i]],
              result |-> store[promptId]]
        ELSE [store |-> store, result |-> Null]

deleteAdminPrompt(store, promptId) ==
    IF promptId \in DOMAIN store
    THEN [store |-> [i \in DOMAIN store \ {promptId} |-> store[i]],
          result |-> store[promptId]]
    ELSE [store |-> store, result |-> Null]

\* A read that would order the active rows oldest first.
getActiveAdminPrompt_Oldest(store) ==
    IF ActiveIds(store) = {} THEN Null
    ELSE LET first == CHOOSE i \in ActiveIds(store) :
                          \A j \in ActiveIds(store) :
                              store[i].createdAt <= store[j].createdAt
         IN  [text |-> store[first].text, version |-> store[first].version]

\* WHERE active = true ORDER BY createdAt DESC LIMIT 1
getActiveAdminPrompt(store) ==
    IF ActiveIds(store) = {} THEN Null
    ELSE LET latest == CHOOSE i \in ActiveIds(store) :
                           \A j \in ActiveIds(store) :
                               store[j].createdAt <= store[i].createdAt
         IN  [text |-> store[latest].text, version |-> store[latest].version]

(***************************************************************************)
(* The admin routes.  Each returns the response and the store and cache    *)
(* after the request.                                                      *)
(***************************************************************************)
Empty == <<>>
NoCache == [t |-> "miss"]

\* called: the query functions and the cache invalidation the handler ran.
Response(status, store, c, result, called) ==
    [status |-> status, store |-> store, cache |-> c, result |-> result,
     called |-> called]

\* POST /api/admin/prompts
AdminPromptsPOST(store, c, id, session, text, isActiveIn) ==
    LET isActive == IF isActiveIn = JUndefined THEN JBoolean(FALSE) ELSE isActiveIn
    IN  IF ~IsAdmin(session) THEN Response(403, store, c, Null, {})
        ELSE IF ~Truthy(text) \/ text.t # "string" \/ Trim(text.s) = ""
        THEN Response(400, store, c, Null, {})
        ELSE IF isActive.t # "boolean" THEN Response(400, store, c, Null, {})
        ELSE LET r == createAdminPrompt(store, id, Trim(text.s), session, isActive.b)
             IN  Response(201, r.store, IF isActive.b THEN NoCache ELSE c, r.result,
                          {"createAdminPrompt"}
                          \cup (IF isActive.b THEN {"invalidateActivePromptCache"} ELSE {}))

\* PUT /api/admin/prompts/[id]
AdminPromptsPUT(store, c, session, promptId, text, isActive) ==
    IF ~IsAdmin(session) THEN Response(403, store, c, Null, {})
    ELSE IF text = JUndefined /\ isActive = JUndefined THEN Response(400, store, c, Null, {})
    ELSE IF text # JUndefined /\ (text.t # "string" \/ Trim(text.s) = "")
    THEN Response(400, store, c, Null, {})
    ELSE IF isActive # JUndefined /\ isActive.t # "boolean"
    THEN Response(400, store, c, Null, {})
    ELSE LET incrementVersion == text # JUndefined
             trimmed == IF text # JUndefined THEN JString(Trim(text.s)) ELSE JUndefined
             r == updateAdminPrompt(store, promptId, trimmed, isActive, incrementVersion)
         IN  IF r.result = Null
             THEN Response(404, r.store, c, Null, {"updateAdminPrompt"})
             ELSE Response(200, r.store,
                           IF isActive # JUndefined THEN NoCache ELSE c, r.result,
                           {"updateAdminPrompt"}
                           \cup (IF isActive # JUndefined
                                 THEN {"invalidateActivePromptCache"} ELSE {}))

\* DELETE /api/admin/prompts/[id]
AdminPromptsDELETE(store, c, session, promptId) ==
    IF ~IsAdmin(session) THEN Response(403, store, c, Null, {})
    ELSE LET r == deleteAdminPrompt(store, promptId)
         IN  IF r.result = Null
             THEN Response(404, r.store, c, Null, {"deleteAdminPrompt"})
             ELSE Response(200, r.store, NoCache, r.result,
                           {"deleteAdminPrompt", "invalidateActivePromptCache"})

(***************************************************************************)
(* Sequential specification of the Active-Prompt Store: one admin request  *)
(* at a time, each a whole handler.                                        *)
(***************************************************************************)
AdminInit ==
    /\ prompts = Empty
    /\ nextPromptId = 1
    /\ cache = NoCache
    /\ lastReq = [op |-> "none", status |-> 0]

AdminCreateWith(session, text, isActive) ==
        /\ nextPromptId <= MaxPrompts
        /\ LET r == AdminPromptsPOST(prompts, cache, nextPromptId, session, text, isActive)
           IN  /\ prompts' = r.store
               /\ cache' = r.cache
               /\ nextPromptId' = IF r.status = 201 THEN nextPromptId + 1 ELSE nextPromptId
               /\ UNCHANGED <<txs, restVars>>
               /\ lastReq' = [op |-> "create", session |-> session, id |-> nextPromptId,
                              text |-> text, isActive |-> isActive,
                              status |-> r.status, result |-> r.result,
                              called |-> r.called,
                              activeBefore |-> ActiveIds(prompts)]

AdminCreateOf(sessions, texts) ==
    \E session \in sessions :
    \E text \in BodiesOf(session, texts) :
    \E isActive \in FlagsOf(session, TextPasses(text)) :
        AdminCreateWith(session, text, isActive)

AdminCreate == AdminCreateOf(AdminSessions, TextInputs)

AdminUpdateWith(session, id, text, isActive) ==
        /\ id \in DOMAIN prompts /\ text # JUndefined => prompts[id].version <= MaxVersion
        /\ LET r == AdminPromptsPUT(prompts, cache, session, id, text, isActive)
           IN  /\ prompts' = r.store
               /\ cache' = r.cache
               /\ lastReq' = [op |-> "update", session |-> session, id |-> id,
                              text |-> text, isActive |-> isActive,
                              status |-> r.status, result |-> r.result,
                              called |-> r.called,
                              activeBefore |-> ActiveIds(prompts)]
        /\ UNCHANGED <<nextPromptId, txs, restVars>>

AdminUpdateOf(sessions, texts) ==
    \E session \in sessions, id \in PromptIds :
    \E text \in BodiesOf(session, texts) :
    \E isActive \in FlagsOf(session, text = JUndefined \/ TextPasses(text)) :
        AdminUpdateWith(session, id, text, isActive)

AdminUpdate == AdminUpdateOf(AdminSessions, TextInputs)

AdminDeleteWith(session, id) ==
        /\ LET r == AdminPromptsDELETE(prompts, cache, session, id)
           IN  /\ prompts' = r.store
               /\ cache' = r.cache
               /\ lastReq' = [op |-> "delete", session |-> session, id |-> id,
                              text |-> JUndefined, isActive |-> JUndefined,
                              status |-> r.status, result |-> r.result,
                              called |-> r.called,
                              activeBefore |-> ActiveIds(prompts)]
        /\ UNCHANGED <<nextPromptId, txs, restVars>>

AdminDeleteOf(sessions) ==
    \E session \in sessions, id \in PromptIds : AdminDeleteWith(session, id)

AdminDelete == AdminDeleteOf(AdminSessions)

\* GET /api/admin/prompts
AdminPromptsGET(store, c, session) ==
    IF ~IsAdmin(session) THEN Response(403, store, c, Null, {})
    ELSE Response(200, store, c, store, {"getAllAdminPrompts"})

\* GET /api/admin/prompt, the single master prompt.  found: whether the
\* master prompt's table has a row.
AdminPromptGET(store, c, session, found) ==
    IF ~IsAdmin(session) THEN Response(403, store, c, Null, {})
    ELSE Response(IF found THEN 200 ELSE 404, store, c, Null, {"getMasterPrompt"})

\* POST /api/admin/prompt.  updated: whether the update returned a row.
AdminPromptPOST(store, c, session, promptText, updated) ==
    IF ~IsAdmin(session) THEN Response(403, store, c, Null, {})
    ELSE IF promptText.t # "string" \/ Trim(promptText.s) = ""
    THEN Response(400, store, c, Null, {})
    ELSE Response(IF updated THEN 200 ELSE 500, store, c, Null,
                  {"updateMasterPrompt"})

\* GET /api/admin/tokens, the report of today's usage per user.  The query
\* reads result.rows, which the driver's result may not have.
AdminTokensGET(store, c, session, shape) ==
    IF ~IsAdmin(session) THEN Response(403, store, c, Null, {})
    ELSE Response(IF shape = "rows" THEN 200 ELSE 500, store, c, Null,
                  {"getTokenUsagePerUserToday"})

\* A request to one of the routes that read: the list, the master prompt,
\* its update (the master prompt's table is not part of the state), and the
\* usage report.
AdminOther(session, op, text, flag) ==
    /\ LET r == CASE op = "list" -> AdminPromptsGET(prompts, cache, session)
                  [] op = "masterGet" ->
                        AdminPromptGET(prompts, cache, session, flag)
                  [] op = "masterUpdate" ->
                        AdminPromptPOST(prompts, cache, session, text, flag)
                  [] op = "tokens" ->
                        AdminTokensGET(prompts, cache, session, resultShape)
       IN  /\ prompts' = r.store
           /\ cache' = r.cache
           /\ lastReq' = [op |-> op, session |-> session, id |-> 0,
                          text |-> text, isActive |-> JUndefined,
                          status |-> r.status, result |-> r.result,
                          called |-> r.called,
                          activeBefore |-> ActiveIds(prompts)]
    /\ UNCHANGED <<nextPromptId, txs, restVars>>

(***************************************************************************)
(* The assembler-facing accessor of the active prompt.  A process-wide     *)
(* single slot holds a copy of the active prompt; a read that finds the    *)
(* slot empty goes to storage and keeps what it found, and a read that     *)
(* finds no active row answers with the hardcoded fallback instruction.    *)
(***************************************************************************)
FallbackInstruction == "fallback"

Cached(row) == [t |-> "hit", text |-> row.text, version |-> row.version]

getSystemPrompt(store, c) ==
    IF c # NoCache
    THEN [cache |-> c, text |-> c.text]
    ELSE LET row == getActiveAdminPrompt(store)
         IN  IF row = Null
             THEN [cache |-> NoCache, text |-> FallbackInstruction]
             ELSE [cache |-> Cached(row), text |-> row.text]

\* One assembly of the system instruction, as a turn request performs it.
AssemblerRead ==
    /\ LET r == getSystemPrompt(prompts, cache)
       IN  /\ cache' = r.cache
           /\ lastReq' = [op |-> "assemble", session |-> NoSession, id |-> 0,
                          text |-> JUndefined, isActive |-> JUndefined,
                          status |-> 200, result |-> r.text,
                          called |-> {"getSystemPrompt"},
                          activeBefore |-> ActiveIds(prompts)]
    /\ UNCHANGED <<prompts, nextPromptId, txs, restVars>>


(***************************************************************************)
(* The same read and an admin update, an await at a time: the accessor     *)
(* that finds the slot empty awaits getActiveAdminPrompt before it fills   *)
(* the slot, and the PUT handler awaits updateAdminPrompt before it calls  *)
(* invalidateActivePromptCache.                                            *)
(***************************************************************************)
\* The accessor answers from a filled slot, or queries storage for the active
\* row.
ReadFetch ==
    /\ flights.read.pc = "idle"
    /\ flights' = [flights EXCEPT !.read =
                      IF cache # NoCache
                      THEN [@ EXCEPT !.pc = "done"]
                      ELSE [pc |-> "fetched", missed |-> TRUE,
                            row |-> getActiveAdminPrompt(prompts)]]
    /\ UNCHANGED <<adminVars, txs, ledgerVars, storeVars, calls, turns, brokerUp,
                   votes, deletes, streamVars>>

\* The query has returned: the accessor keeps what it found.
ReadInstall ==
    /\ flights.read.pc = "fetched"
    /\ cache' = IF flights.read.row = Null THEN NoCache
                ELSE Cached(flights.read.row)
    /\ flights' = [flights EXCEPT !.read.pc = "done"]
    /\ UNCHANGED <<prompts, nextPromptId, lastReq, txs, ledgerVars, storeVars,
                   calls, turns, brokerUp, votes, deletes, streamVars>>

\* PUT /api/admin/prompts/[id] up to the return of updateAdminPrompt.
MutateStore ==
    /\ flights.write.pc = "idle"
    /\ \E id \in PromptIds, text \in {JUndefined, JString("B")},
          isActive \in {JUndefined, JBoolean(TRUE), JBoolean(FALSE)} :
        LET r == AdminPromptsPUT(prompts, cache, "adm", id, text, isActive)
        IN  /\ prompts' = r.store
            /\ flights' = [flights EXCEPT !.write =
                   [pc |-> "stored", status |-> r.status,
                    invalidates |-> "invalidateActivePromptCache" \in r.called,
                    before |-> getActiveAdminPrompt(prompts)]]
    /\ UNCHANGED <<nextPromptId, cache, lastReq, txs, ledgerVars, storeVars,
                   calls, turns, brokerUp, votes, deletes, streamVars>>

\* The rest of the handler: the invalidation, when it is called, and the
\* response.
MutateInvalidate ==
    /\ flights.write.pc = "stored"
    /\ cache' = IF flights.write.invalidates THEN NoCache ELSE cache
    /\ flights' = [flights EXCEPT !.write.pc = "done"]
    /\ UNCHANGED <<prompts, nextPromptId, lastReq, txs, ledgerVars, storeVars,
                   calls, turns, brokerUp, votes, deletes, streamVars>>

(***************************************************************************)
(* Concurrent storage transactions on admin_prompts.  db.transaction is    *)
(* called without an isolation level, so each statement of a transaction   *)
(* runs at the storage's default, READ COMMITTED: a statement sees the     *)
(* rows committed when it starts plus the transaction's own writes, a row  *)
(* written by a transaction stays locked until that transaction commits,   *)
(* and an UPDATE that waited for a row lock re-evaluates its WHERE clause  *)
(* on the newly committed version of that row only.                        *)
(***************************************************************************)
TxIds == 1..MaxTx

IdleTx == [pc |-> "idle", op |-> "none", id |-> 0, isActive |-> FALSE,
           snap |-> {}, pend |-> Empty]

\* The rows transaction T sees: committed rows overridden by its own writes.
TxView(T) ==
    [i \in DOMAIN prompts \cup DOMAIN txs[T].pend |->
        IF i \in DOMAIN txs[T].pend THEN txs[T].pend[i] ELSE prompts[i]]

\* Rows locked by a transaction other than T.
LockedByOther(T) ==
    UNION {DOMAIN txs[U].pend : U \in {V \in TxIds : V # T /\ txs[V].pc # "committed"}}

\* createAdminPrompt / updateAdminPrompt enter db.transaction.
TxBegin(T) ==
    /\ txs[T].pc = "idle"
    /\ \/ \E isActive \in BOOLEAN :
            /\ nextPromptId <= MaxPrompts + MaxTx
            /\ txs' = [txs EXCEPT ![T] = [IdleTx EXCEPT !.pc = "begun", !.op = "create",
                                              !.id = nextPromptId, !.isActive = isActive]]
            /\ nextPromptId' = nextPromptId + 1
       \/ \E id \in DOMAIN prompts, isActive \in BOOLEAN :
            /\ txs' = [txs EXCEPT ![T] = [IdleTx EXCEPT !.pc = "begun", !.op = "update",
                                              !.id = id, !.isActive = isActive]]
            /\ UNCHANGED <<nextPromptId, txs, restVars>>
    /\ UNCHANGED <<prompts, cache, lastReq, restVars>>

\* UPDATE ... SET active = false WHERE active = true starts: the rows that
\* match are those of the statement's snapshot.
TxDeactivateScan(T) ==
    /\ txs[T].pc = "begun" /\ txs[T].isActive
    /\ txs' = [txs EXCEPT ![T].pc = "scanned", ![T].snap = ActiveIds(TxView(T))]
    /\ UNCHANGED <<prompts, nextPromptId, cache, lastReq, restVars>>

\* The statement takes the row locks (waiting for their holders to commit),
\* re-checks WHERE on the rows it waited for, and writes.
TxDeactivateApply(T) ==
    /\ txs[T].pc = "scanned"
    /\ txs[T].snap \cap LockedByOther(T) = {}
    /\ LET hit == {i \in txs[T].snap : i \in DOMAIN prompts /\ prompts[i].active}
       IN  txs' = [txs EXCEPT ![T].pc = "cleared",
                              ![T].pend = [i \in hit |-> [prompts[i] EXCEPT !.active = FALSE]]]
    /\ UNCHANGED <<prompts, nextPromptId, cache, lastReq, restVars>>

\* The transaction's own INSERT, or UPDATE ... WHERE id = promptId.
TxWrite(T) ==
    /\ \/ txs[T].pc = "cleared"
       \/ txs[T].pc = "begun" /\ ~txs[T].isActive
    /\ LET id == txs[T].id
           view == TxView(T)
           row == IF txs[T].op = "create"
                  THEN [text |-> "A", active |-> txs[T].isActive, version |-> 1,
                        createdAt |-> id, createdBy |-> "adm"]
                  ELSE [view[id] EXCEPT !.active = txs[T].isActive]
       IN  IF txs[T].op = "update" /\ id \notin DOMAIN view
           THEN txs' = [txs EXCEPT ![T].pc = "written"]
           ELSE /\ id \notin LockedByOther(T)
                /\ txs' = [txs EXCEPT ![T].pc = "written",
                                      ![T].pend = InsertPrompt(txs[T].pend, id, row)]
    /\ UNCHANGED <<prompts, nextPromptId, cache, lastReq, restVars>>

\* The callback returns: the transaction commits and its locks are released.
TxCommit(T) ==
    /\ txs[T].pc = "written"
    /\ prompts' = TxView(T)
    /\ txs' = [txs EXCEPT ![T].pc = "committed", ![T].pend = Empty]
    /\ UNCHANGED <<nextPromptId, cache, lastReq, restVars>>

\* Stores that sequential requests leave behind: at most one active row.
Row(id, active) == [text |-> "A", active |-> active, version |-> 1,
                    createdAt |-> id, createdBy |-> "adm"]

TxInitStores ==
    {Empty}
    \cup {[i \in 1..n |-> Row(i, i = a)] : n \in 1..MaxPrompts, a \in 0..MaxPrompts}

TxInit ==
    /\ prompts \in TxInitStores
    /\ nextPromptId = Cardinality(DOMAIN prompts) + 1
    /\ cache = NoCache
    /\ lastReq = [op |-> "none", status |-> 0]
    /\ txs = [T \in TxIds |-> IdleTx]

TxNext ==
    \E T \in TxIds :
        \/ TxBegin(T)
        \/ TxDeactivateScan(T)
        \/ TxDeactivateApply(T)
        \/ TxWrite(T)
        \/ TxCommit(T)


(***************************************************************************)
(* The Usage Ledger (token_usage) and the admission quota.                 *)
(***************************************************************************)
DayMs == 24 * 60 * 60 * 1000
TickMs == DayMs \div 2

\* entitlementsByUserType[userType].maxTokensPerDay
maxTokensPerDay(userType) ==
    CASE userType = "student" -> 1000
      [] userType = "regular" -> 20000
      [] userType = "admin" -> 100000000

\* Token counts a provider reports for one exchange.
PromptCounts == {0, 999}
CompletionCounts == {0, 1, 2}

\* A decimal string, as the storage returns a bigint SUM, and parseInt(_, 10).
RECURSIVE ToDecimal(_)
ToDecimal(n) == IF n < 10 THEN <<n>> ELSE Append(ToDecimal(n \div 10), n % 10)

RECURSIVE parseInt(_)
parseInt(digits) ==
    IF Len(digits) = 0 THEN 0
    ELSE 10 * parseInt(SubSeq(digits, 1, Len(digits) - 1)) + digits[Len(digits)]

\* SELECT SUM(prompt_tokens + completion_tokens) FROM token_usage
\* WHERE user_id = userId AND created_at >= twentyFourHoursAgo:
\* the rows are scanned in table order; SUM of no row is NULL.
RECURSIVE ScanSum(_, _, _)
ScanSum(rows, userId, since) ==
    IF rows = <<>> THEN [n |-> 0, total |-> 0]
    ELSE LET rest == ScanSum(Tail(rows), userId, since)
             r == Head(rows)
         IN  IF r.user_id = userId /\ r.created_at >= since
             THEN [n |-> rest.n + 1,
                   total |-> rest.total + (r.prompt_tokens + r.completion_tokens)]
             ELSE rest

SqlNull == [t |-> "sqlnull"]

SelectSum(rows, userId, since) ==
    LET s == ScanSum(rows, userId, since)
    IN  IF s.n = 0 THEN SqlNull ELSE [t |-> "string", digits |-> ToDecimal(s.total)]

\* What db.execute resolves to: an object with a rows array, or the array of
\* rows itself (the two shapes the comment in sumTokenUsageForUserInLast24h
\* names).  Which one is fixed by the driver.
ResultShapes == {"rows", "array"}

ExecuteResult(shape, row) ==
    IF shape = "rows"
    THEN [t |-> "object", rows |-> <<row>>]
    ELSE [t |-> "array", items |-> <<row>>]

\* result.rows: undefined on an array of rows.
RowsOf(result) == IF result.t = "object" THEN result.rows ELSE <<>>
HasRows(result) == result.t = "object"

\* A ledger read that answers a failure with more than any quota.
sumTokenUsageForUserInLast24h_FailClosed(rows, userId, clock, shape, readOk) ==
    IF ~readOk THEN maxTokensPerDay("admin") ELSE 0

sumTokenUsageForUserInLast24h(rows, userId, clock, shape, readOk) ==
    IF ~readOk THEN 0
    ELSE LET twentyFourHoursAgo == clock - DayMs
             result == ExecuteResult(shape,
                          [total_tokens |-> SelectSum(rows, userId, twentyFourHoursAgo)])
         IN  IF /\ HasRows(result)
                /\ Len(RowsOf(result)) > 0
                /\ RowsOf(result)[1].total_tokens # SqlNull
             THEN parseInt(RowsOf(result)[1].total_tokens.digits)
             ELSE 0

\* INSERT INTO token_usage: created_at defaults to the storage's now().
\* turn tags the record with the turn whose finalizer wrote it.
UsageRow(userId, chatId, promptTokens, completionTokens, clock, turn) ==
    [user_id |-> userId, chat_id |-> chatId, prompt_tokens |-> promptTokens,
     completion_tokens |-> completionTokens, created_at |-> clock, turn |-> turn]

recordUsage(rows, userId, chatId, promptTokens, completionTokens, clock, turn, insertOk) ==
    IF insertOk
    THEN Append(rows, UsageRow(userId, chatId, promptTokens, completionTokens, clock, turn))
    ELSE rows


NoSum == [asked |-> FALSE]

LedgerInit ==
    /\ now = 0
    /\ usage = <<>>
    /\ resultShape \in ResultShapes
    /\ lastSum = NoSum

\* The ledger while no request touches it.  drizzle-orm/postgres-js, the
\* driver queries.ts imports, resolves db.execute to the array of rows.
LedgerIdle ==
    /\ now = 0
    /\ usage = <<>>
    /\ resultShape = "array"
    /\ lastSum = NoSum

\* Time passes.
Tick ==
    /\ now < MaxTicks * TickMs
    /\ now' = now + TickMs
    /\ UNCHANGED <<usage, resultShape, lastSum>>

\* A finalizer records the usage of one exchange.
LedgerRecord ==
    \E u \in Users, p \in PromptCounts, c \in CompletionCounts :
        /\ Len(usage) < MaxRecords
        /\ usage' = recordUsage(usage, u, "c1", p, c, now, 0, TRUE)
        /\ UNCHANGED <<now, resultShape, lastSum>>

\* The admission check reads the ledger for one user.
LedgerSum ==
    \E u \in Users, readOk \in BOOLEAN :
        /\ lastSum' = [asked |-> TRUE, user |-> u, readOk |-> readOk,
                       at |-> now, records |-> Len(usage),
                       value |-> sumTokenUsageForUserInLast24h(usage, u, now,
                                                               resultShape, readOk)]
        /\ UNCHANGED <<now, usage, resultShape>>

(***************************************************************************)
(* POST /api/chat: admission, persistence of the user turn, the stream     *)
(* handle, and the start of the generation.                                *)
(***************************************************************************)
Turns == 1..MaxTurns
Reconnects == 1..MaxReconnects
ChatIds == {"c1"}

\* DELETE /api/chat requests: nobody, the owner of the conversation and another
\* user send one each.
DeleteSessions == {NoSession, "reg", "stu"}

\* A request that has not arrived.
IdleDelete == [pc |-> "idle", id |-> "none", status |-> 0]
Visibilities == {"private", "public"}

\* The requests a client may send.  A body the schema rejects is answered
\* before the session is read, and a request without a session before the
\* rest of the body is used, so one request stands for each of the two.
BadBody ==
    [bodyOk |-> FALSE, session |-> NoSession, chat |-> "c1",
     visibility |-> "private", hasText |-> FALSE, readOk |-> TRUE]

Requests ==
    {BadBody}
    \cup {[bodyOk |-> TRUE, session |-> NoSession, chat |-> "c1",
           visibility |-> "private", hasText |-> FALSE, readOk |-> TRUE]}
    \cup {[bodyOk |-> TRUE, session |-> u, chat |-> c, visibility |-> v,
           hasText |-> h, readOk |-> r] :
            u \in Users, c \in ChatIds, v \in Visibilities,
            h \in BOOLEAN, r \in BOOLEAN}

NoBody == [text |-> "", digits |-> <<>>]

\* No instruction has been assembled for the turn.
NoAssembly ==
    [model |-> "none", hints |-> "none", fetchFault |-> "none",
     embedOk |-> FALSE, lookupOk |-> FALSE]

IdleTurn ==
    [pc |-> "idle", session |-> NoSession, chat |-> "c1",
     visibility |-> "private", hasText |-> FALSE, readOk |-> TRUE,
     used |-> 0, limit |-> 0, status |-> 0, body |-> NoBody, system |-> <<>>,
     asm |-> NoAssembly, bodyOk |-> TRUE]

\* `You have exceeded your daily token limit (${dailyTokenLimit} tokens). ...`
QuotaMessage(dailyTokenLimit) ==
    [text |-> "You have exceeded your daily token limit",
     digits |-> ToDecimal(dailyTokenLimit)]

\* if (tokensUsedToday >= dailyTokenLimit) return 429; the handler goes on
\* otherwise.
AdmitOutcome_NoReturn(tokensUsedToday, dailyTokenLimit) ==
    IF tokensUsedToday >= dailyTokenLimit
    THEN [pc |-> "admitted", status |-> 429, body |-> QuotaMessage(dailyTokenLimit)]
    ELSE [pc |-> "admitted", status |-> 0, body |-> NoBody]

AdmitOutcome(tokensUsedToday, dailyTokenLimit) ==
    IF tokensUsedToday >= dailyTokenLimit
    THEN [pc |-> "done", status |-> 429, body |-> QuotaMessage(dailyTokenLimit)]
    ELSE [pc |-> "admitted", status |-> 0, body |-> NoBody]

\* The handler up to and including the admission check.
Admission(req, rows, clock, shape) ==
    LET base == [IdleTurn EXCEPT !.bodyOk = req.bodyOk,
                                 !.session = req.session, !.chat = req.chat,
                                 !.visibility = req.visibility,
                                 !.hasText = req.hasText, !.readOk = req.readOk]
    IN  IF ~req.bodyOk
        THEN [base EXCEPT !.pc = "done", !.status = 400]
        ELSE IF req.session = NoSession
        THEN [base EXCEPT !.pc = "done", !.status = 401]
        ELSE LET tokensUsedToday ==
                    sumTokenUsageForUserInLast24h(rows, req.session, clock,
                                                  shape, req.readOk)
                 dailyTokenLimit == maxTokensPerDay(UserType(req.session))
                 out == AdmitOutcome(tokensUsedToday, dailyTokenLimit)
             IN  [base EXCEPT !.pc = out.pc, !.status = out.status,
                              !.body = out.body, !.used = tokensUsedToday,
                              !.limit = dailyTokenLimit]

PostAdmitOf(t, requests) ==
    /\ turns[t].pc = "idle"
    /\ \E req \in requests :
        turns' = [turns EXCEPT ![t] = Admission(req, usage, now, resultShape)]
    /\ UNCHANGED <<ledgerVars, storeVars, calls, brokerUp, otherVars, streamVars>>

PostAdmit(t) == PostAdmitOf(t, Requests)

\* Storage and model calls that may fail between admission and the stream
\* handle.
PersistFaults ==
    {"none", "title", "saveChat", "getMessages", "saveMessages", "embed",
     "saveMemory"}

ChatRow(userId, visibility, turn) ==
    [userId |-> userId, visibility |-> visibility, turn |-> turn]

MessageRow(chatId, role, clock, turn) ==
    [chatId |-> chatId, role |-> role, createdAt |-> clock, turn |-> turn]

\* The fragment a turn writes holds the text of the turn.
TurnText(turn) == <<"turn", turn>>

MemoryRow(userId, turn) ==
    [user_id |-> userId, turn |-> turn, content |-> TurnText(turn)]

\* getChatById / saveChat or 403, saveMessages of the user turn, and the
\* memory write, which logs its failures and goes on.
ChatOfAnother_Let(chat, session) == FALSE

\* chat && chat.userId !== session.user.id
ChatOfAnother(chat, session) == chat # Null /\ chat.userId # session

PostPersist(t) ==
    /\ turns[t].pc = "admitted"
    /\ \E failAt \in PersistFaults :
        LET tr == turns[t]
            isNew == chats[tr.chat] = Null
            forbidden == ChatOfAnother(chats[tr.chat], tr.session)
            chatSaved == isNew /\ failAt \notin {"title", "saveChat"}
            pastChat == IF isNew THEN chatSaved ELSE ~forbidden
            userSaved == pastChat /\ failAt \notin {"getMessages", "saveMessages"}
            embedCalled == userSaved /\ tr.hasText
            memorySaved == embedCalled /\ failAt \notin {"embed", "saveMemory"}
        IN  /\ chats' = IF chatSaved
                        THEN [chats EXCEPT ![tr.chat] =
                                  ChatRow(tr.session, tr.visibility, t)]
                        ELSE chats
            /\ messages' = IF userSaved
                           THEN Append(messages, MessageRow(tr.chat, "user", now, t))
                           ELSE messages
            /\ memories' = IF memorySaved
                           THEN Append(memories, MemoryRow(tr.session, t))
                           ELSE memories
            /\ calls' = calls
                        \cup (IF isNew THEN {<<"title", t>>} ELSE {})
                        \cup (IF embedCalled THEN {<<"embed", t>>} ELSE {})
            /\ turns' = [turns EXCEPT ![t] =
                            IF forbidden
                            THEN [tr EXCEPT !.pc = "done", !.status = 403]
                            ELSE IF ~userSaved
                            THEN [tr EXCEPT !.pc = "done", !.status = 500]
                            ELSE [tr EXCEPT !.pc = "persisted"]]
    /\ UNCHANGED <<ledgerVars, streams, brokerUp, otherVars, streamVars>>

\* Message_v2, Vote_v2 and Stream reference Chat.id: an insert of a row whose
\* chat is absent fails, as any insert may.
InsertOutcomes(store, chatId) ==
    IF store[chatId] = Null THEN {FALSE} ELSE BOOLEAN

StreamRow(id, chatId, clock) == [id |-> id, chatId |-> chatId, createdAt |-> clock]

\* createStreamId: the handle of turn t is t.
createStreamId(rows, streamId, chatId, clock) ==
    Append(rows, StreamRow(streamId, chatId, clock))

PostCreateStream(t) ==
    /\ turns[t].pc = "persisted"
    /\ \E insertOk \in InsertOutcomes(chats, turns[t].chat) :
        IF insertOk
        THEN /\ streams' = createStreamId(streams, t, turns[t].chat, now)
             /\ turns' = [turns EXCEPT ![t].pc = "handle"]
        ELSE /\ streams' = streams
             /\ turns' = [turns EXCEPT ![t].pc = "done", ![t].status = 500]
    /\ UNCHANGED <<ledgerVars, chats, messages, memories, calls, brokerUp, otherVars,
                   streamVars>>

(***************************************************************************)
(* The generation, the stream broker and the consumers.                    *)
(***************************************************************************)
Chunk(k) == <<"chunk", k>>
ErrorEvent == <<"error", 0>>
EndEvent == <<"end", 0>>

NoGen == [state |-> "none", out |-> <<>>, fin |-> 0, fault |-> "none"]

NoStream == [state |-> "absent", by |-> "none", src |-> "none", buf |-> <<>>]

PostConsumers == {<<"post", t>> : t \in Turns}
GetConsumers == {<<"get", k>> : k \in Reconnects}
ConsumerIds == PostConsumers \cup GetConsumers

\* The request of a consumer that did not come through GET.
NoResume == [hasChatId |-> FALSE, session |-> "none", chat |-> "none"]

FreeConsumer ==
    [state |-> "free", resp |-> "none", via |-> "none", sid |-> 0,
     replayed |-> 0, queue |-> <<>>, got |-> <<>>, req |-> NoResume, at |-> 0]

Answered(resp) == [FreeConsumer EXCEPT !.state = "closed", !.resp = resp]

\* streamContext.resumableStream(streamId, makeStream): the first caller for
\* an id makes the producer from makeStream and reads it from the start; a
\* later caller is replayed what was published and then follows; once the
\* stream has concluded the answer is null.
resumableStream(b, by, src) ==
    CASE b.state = "absent" ->
            [broker |-> [state |-> "live", by |-> by, src |-> src, buf |-> <<>>],
             stream |-> TRUE, replay |-> <<>>]
      [] b.state = "live" -> [broker |-> b, stream |-> TRUE, replay |-> b.buf]
      [] b.state = "done" -> [broker |-> b, stream |-> FALSE, replay |-> <<>>]

Attached(sid, via, replay) ==
    [FreeConsumer EXCEPT !.state = "open", !.resp = "stream", !.via = via,
                         !.sid = sid, !.replayed = Len(replay),
                         !.queue = replay]

\* The makeStream the POST handler passes: () => stream, the data stream of
\* the turn's generation.
PostProducer_Empty(t) == "empty"

PostProducer(t) == "turn"

(***************************************************************************)
(* The Prompt Assembler.  An instruction is the sequence of its blocks,    *)
(* which the code joins with blank lines.                                  *)
(***************************************************************************)
Models == {"chat-model", "chat-model-reasoning"}

RequestHints == {"h1", "h2"}

artifactsPrompt == <<"artifacts", "authoring">>

getRequestPromptFromHints(requestHints) == <<"hints", requestHints>>

\* What the read of the stored prompt gives the assembler: the active
\* row's text, a record without text, nothing, or an exception.
FetchFaults == {"none", "noText", "throws"}

Fetched(store, fault) ==
    IF fault = "throws" THEN [t |-> "throws"]
    ELSE LET row == getActiveAdminPrompt(store)
         IN  IF row = Null THEN Null
             ELSE [t |-> "record",
                   promptText |-> IF fault = "noText" THEN JUndefined
                                  ELSE JString(row.text)]

BaseText(fetched) ==
    IF fetched.t = "record" /\ fetched.promptText # JUndefined
    THEN fetched.promptText
    ELSE JString(FallbackInstruction)

systemPrompt_AlwaysArtifacts(fetched, selectedChatModel, requestHints) ==
    <<<<"base", BaseText(fetched)>>, getRequestPromptFromHints(requestHints), artifactsPrompt>>

systemPrompt(fetched, selectedChatModel, requestHints) ==
    <<<<"base", BaseText(fetched)>>, getRequestPromptFromHints(requestHints)>>
    \o (IF selectedChatModel = "chat-model-reasoning" THEN <<>>
        ELSE <<artifactsPrompt>>)

\* The distance of a fragment's embedding from the embedding of the text of
\* turn t: a fragment holding that very text is at distance 0, and fragments
\* of different contents are at different distances.
MaxFragments == 6

Distance(content, t) ==
    IF content = TurnText(t) THEN 0
    ELSE IF content[1] = "turn" THEN MaxFragments + 1 + content[2]
    ELSE content[3]

RECURSIVE Nearest(_, _, _, _)
Nearest(rows, positions, t, limit) ==
    IF positions = {} \/ limit = 0 THEN <<>>
    ELSE LET i == CHOOSE j \in positions :
                    \A k \in positions :
                        \/ Distance(rows[j].content, t) < Distance(rows[k].content, t)
                        \/ /\ Distance(rows[j].content, t) = Distance(rows[k].content, t)
                           /\ j <= k
         IN  <<rows[i].content>> \o Nearest(rows, positions \ {i}, t, limit - 1)

\* SELECT content FROM memories WHERE user_id = userId ORDER BY distance
\* LIMIT limit; [] when the query fails.
getRelevantMemories_AnyOwner(rows, userId, t, limit, lookupOk) ==
    IF ~lookupOk THEN <<>>
    ELSE Nearest(rows, 1..Len(rows), t, limit)

getRelevantMemories_IgnoresFailure(rows, userId, t, limit, lookupOk) ==
    Nearest(rows, {i \in 1..Len(rows) : rows[i].user_id = userId}, t, limit)

getRelevantMemories(rows, userId, t, limit, lookupOk) ==
    IF ~lookupOk THEN <<>>
    ELSE Nearest(rows, {i \in 1..Len(rows) : rows[i].user_id = userId}, t, limit)

MemoryLimit == 5

\* What an assembly depends on besides the stores: the model variant, the
\* hints of the request, and which of its calls fail.
Assemblies ==
    [model : Models, hints : RequestHints, fetchFault : FetchFaults,
     embedOk : BOOLEAN, lookupOk : BOOLEAN]

PlainAssembly ==
    [model |-> "chat-model", hints |-> "h1", fetchFault |-> "none",
     embedOk |-> TRUE, lookupOk |-> TRUE]

\* getSystemPrompt, then the memory block when the turn has text, the query
\* embedding succeeds and the lookup returns fragments.
finalSystemPrompt(tr, t, a, store, rows) ==
    LET baseSystemPromptText ==
            systemPrompt(Fetched(store, a.fetchFault), a.model, a.hints)
        relevantMemoryContents ==
            IF tr.hasText /\ a.embedOk
            THEN getRelevantMemories(rows, tr.session, t, MemoryLimit, a.lookupOk)
            ELSE <<>>
    IN  IF Len(relevantMemoryContents) > 0
        THEN Append(baseSystemPromptText, <<"memory", relevantMemoryContents>>)
        ELSE baseSystemPromptText

\* The system prompt is assembled, the generation starts (createDataStream
\* runs execute at once), and the response is the broker's stream for the
\* handle, or the data stream itself when there is no broker.
PostRespondOf(t, assemblies) ==
    /\ turns[t].pc = "handle"
    /\ calls' = calls
                \cup (IF turns[t].hasText THEN {<<"embedQuery", t>>} ELSE {})
                \cup {<<"generate", t>>}
    /\ gens' = [gens EXCEPT ![t] = [NoGen EXCEPT !.state = "running"]]
    /\ IF brokerUp
       THEN LET r == resumableStream(broker[t], "post", PostProducer(t))
            IN  /\ broker' = [broker EXCEPT ![t] = r.broker]
                /\ cons' = [cons EXCEPT ![<<"post", t>>] =
                               IF r.stream
                               THEN Attached(t, "broker", r.replay)
                               ELSE [Answered("null") EXCEPT !.sid = t]]
       ELSE /\ broker' = broker
            /\ cons' = [cons EXCEPT ![<<"post", t>>] = Attached(t, "direct", <<>>)]
    /\ \E a \in assemblies :
        turns' = [turns EXCEPT ![t].pc = "done", ![t].status = 200,
                               ![t].asm = a,
                               ![t].system =
                                   finalSystemPrompt(turns[t], t, a, prompts, memories)]
    /\ UNCHANGED <<ledgerVars, storeVars, brokerUp, otherVars>>

PostRespond(t) == PostRespondOf(t, {PlainAssembly})

\* Who gets what the generation of turn t writes to its data stream: the
\* broker when the turn's stream is the producer of the handle, and the
\* requester itself when it reads the data stream directly.
Pumped(t) == broker[t].state = "live" /\ broker[t].src = "turn"

Reads(c, t) ==
    /\ cons[c].state = "open"
    /\ cons[c].sid = t
    /\ \/ cons[c].via = "direct"
       \/ cons[c].via = "broker" /\ Pumped(t)

Publish(t, events, end) ==
    /\ broker' = IF Pumped(t)
                 THEN [broker EXCEPT ![t].buf = @ \o events,
                                     ![t].state = IF end THEN "done" ELSE @]
                 ELSE broker
    /\ cons' = [c \in ConsumerIds |->
                   IF Reads(c, t)
                   THEN [cons[c] EXCEPT !.queue =
                            @ \o events \o (IF end THEN <<EndEvent>> ELSE <<>>)]
                   ELSE cons[c]]

\* result.consumeStream() drains the model output whether or not anything
\* reads the data stream.
ProducerRuns_NeedsReader(t) ==
    Pumped(t) \/ \E c \in ConsumerIds : Reads(c, t)

ProducerRuns(t) == TRUE

GenChunk(t) ==
    /\ gens[t].state = "running"
    /\ ProducerRuns(t)
    /\ Len(gens[t].out) < MaxChunks
    /\ LET ev == Chunk(Len(gens[t].out) + 1)
       IN  /\ gens' = [gens EXCEPT ![t].out = Append(@, ev)]
           /\ Publish(t, <<ev>>, FALSE)
    /\ UNCHANGED <<ledgerVars, storeVars, calls, turns, brokerUp, otherVars>>

\* The usage the provider reports for the exchange (response.usage).
UsageReports == {[promptTokens |-> 999, completionTokens |-> 1]}

FinalizerFaults == {"none", "saveMessages", "recordUsage"}

\* streamText calls onFinish once, when the model output has ended.
AfterFinish_StillRunning(g, fault) ==
    [g EXCEPT !.fin = @ + 1, !.fault = fault]

\* An onFinish that would let a failed usage insert fail the generation.
AfterFinish_UsageFaultFails(g, fault) ==
    [g EXCEPT !.state = IF fault = "recordUsage" THEN "failed" ELSE "finished",
              !.fin = @ + 1, !.fault = fault]

AfterFinish(g, fault) ==
    [g EXCEPT !.state = "finished", !.fin = @ + 1, !.fault = fault]

\* onFinish: saveMessages of the assistant turn, then recordUsage, inside one
\* try; a failed saveMessages skips recordUsage, and recordUsage logs its own
\* failure.  The data stream then ends.
GenFinish(t) ==
    /\ gens[t].state = "running"
    /\ ProducerRuns(t)
    /\ \E rep \in UsageReports, fault \in FinalizerFaults :
        /\ fault = "saveMessages" \/ TRUE \in InsertOutcomes(chats, turns[t].chat)
        /\ messages' = IF fault # "saveMessages"
                       THEN Append(messages,
                                   MessageRow(turns[t].chat, "assistant", now, t))
                       ELSE messages
        /\ usage' = IF fault # "saveMessages"
                    THEN recordUsage(usage, turns[t].session, turns[t].chat,
                                     rep.promptTokens, rep.completionTokens,
                                     now, t, fault # "recordUsage")
                    ELSE usage
        /\ gens' = [gens EXCEPT ![t] = AfterFinish(@, fault)]
    /\ Publish(t, <<>>, TRUE)
    /\ UNCHANGED <<now, resultShape, lastSum, chats, memories, streams, calls,
                   turns, brokerUp, otherVars>>

\* The model call fails: onError puts an error part on the data stream,
\* which ends; onFinish is not called.
GenFail(t) ==
    /\ gens[t].state = "running"
    /\ ProducerRuns(t)
    /\ gens' = [gens EXCEPT ![t].state = "failed", ![t].out = Append(@, ErrorEvent)]
    /\ Publish(t, <<ErrorEvent>>, TRUE)
    /\ UNCHANGED <<ledgerVars, storeVars, calls, turns, brokerUp, otherVars>>

\* The empty data stream a GET made the producer of a handle ends at once.
BrokerDrainEmpty(s) ==
    /\ broker[s].state = "live"
    /\ broker[s].src = "empty"
    /\ broker' = [broker EXCEPT ![s].state = "done"]
    /\ cons' = [c \in ConsumerIds |->
                   IF cons[c].state = "open" /\ cons[c].via = "broker"
                      /\ cons[c].sid = s
                   THEN [cons[c] EXCEPT !.queue = Append(@, EndEvent)]
                   ELSE cons[c]]
    /\ UNCHANGED <<ledgerVars, storeVars, calls, turns, brokerUp, otherVars, gens>>

\* A consumer reads the next event of its response stream.
ConsumerReceive(c) ==
    /\ cons[c].state = "open"
    /\ cons[c].queue # <<>>
    /\ cons' = [cons EXCEPT ![c] =
                   IF Head(cons[c].queue) = EndEvent
                   THEN [@ EXCEPT !.state = "closed", !.queue = <<>>]
                   ELSE [@ EXCEPT !.got = Append(@, Head(cons[c].queue)),
                                  !.queue = Tail(@)]]
    /\ UNCHANGED <<ledgerVars, storeVars, calls, turns, brokerUp, otherVars, gens, broker>>

\* A consumer stops reading or loses its connection.
ConsumerDetach(c) ==
    /\ cons[c].state = "open"
    /\ cons' = [cons EXCEPT ![c].state = "gone", ![c].queue = <<>>]
    /\ UNCHANGED <<ledgerVars, storeVars, calls, turns, brokerUp, otherVars, gens, broker>>

(***************************************************************************)
(* GET /api/chat: reconnection.                                            *)
(***************************************************************************)
ResumeRequests ==
    {[hasChatId |-> FALSE, session |-> NoSession, chat |-> "c1"]}
    \cup {[hasChatId |-> TRUE, session |-> s, chat |-> c] :
            s \in Sessions, c \in ChatIds}

\* A lookup that would list the handles of the chat newest first.
getStreamIdsByChatId_Descending(rows, chatId) ==
    LET asc == SelectSeq(rows, LAMBDA r : r.chatId = chatId)
    IN  [i \in 1..Len(asc) |-> asc[Len(asc) + 1 - i]]

\* getStreamIdsByChatId: the handles of the chat, oldest first.
getStreamIdsByChatId(rows, chatId) ==
    SelectSeq(rows, LAMBDA r : r.chatId = chatId)

\* getMessagesByChatId: the messages of the chat, oldest first.
getMessagesByChatId(rows, chatId) ==
    SelectSeq(rows, LAMBDA m : m.chatId = chatId)

\* date-fns differenceInSeconds of two instants in milliseconds, the later
\* one first: whole seconds, the fraction dropped.
differenceInSeconds(later, earlier) == (later - earlier) \div 1000

FreshSeconds == 15

\* What the GET handler answers when the broker has no stream to give.
Fallback_AlwaysEmpty(chatId, resumeRequestedAt) == Answered("empty")

Fallback(chatId, resumeRequestedAt) ==
    LET msgs == getMessagesByChatId(messages, chatId)
        mostRecentMessage == msgs[Len(msgs)]
    IN  IF Len(msgs) = 0 THEN Answered("empty")
        ELSE IF mostRecentMessage.role # "assistant" THEN Answered("empty")
        ELSE IF differenceInSeconds(resumeRequestedAt, mostRecentMessage.createdAt)
                    > FreshSeconds
        THEN Answered("empty")
        ELSE [Answered("restored") EXCEPT
                 !.got = << <<"append-message", mostRecentMessage.turn>> >>]

\* A GET that would not compare the requester with the conversation's owner.
ResumeRefusal_NoOwnerCheck(q, ids) ==
    IF ~brokerUp THEN "204"
    ELSE IF ~q.hasChatId THEN "400"
    ELSE IF q.session = NoSession THEN "401"
    ELSE IF chats[q.chat] = Null THEN "404"
    ELSE IF Len(ids) = 0 THEN "404"
    ELSE "none"

\* A GET that would look for the stream context only after its other checks.
ResumeRefusal_NoContextCheck(q, ids) ==
    IF ~q.hasChatId THEN "400"
    ELSE IF q.session = NoSession THEN "401"
    ELSE IF chats[q.chat] = Null THEN "404"
    ELSE IF chats[q.chat].visibility = "private"
            /\ chats[q.chat].userId # q.session THEN "403"
    ELSE "204"

\* The early returns of GET, in the handler's order, or "none".
ResumeRefusal(q, ids) ==
    IF ~brokerUp THEN "204"
    ELSE IF ~q.hasChatId THEN "400"
    ELSE IF q.session = NoSession THEN "401"
    ELSE IF chats[q.chat] = Null THEN "404"
    ELSE IF chats[q.chat].visibility = "private"
            /\ chats[q.chat].userId # q.session THEN "403"
    ELSE IF Len(ids) = 0 THEN "404"
    ELSE "none"

\* The handler of GET; a noted reconnection keeps its request and the
\* instant it was made with its response.
ReconnectOf(k, noted) ==
    /\ cons[<<"get", k>>].state = "free"
    /\ \E q \in ResumeRequests :
        LET c == <<"get", k>>
            ids == getStreamIdsByChatId(streams, q.chat)
            recentStreamId == ids[Len(ids)].id
            r == resumableStream(broker[recentStreamId], "get", "empty")
            early == ResumeRefusal(q, ids)
            asked(consumer) ==
                IF noted THEN [consumer EXCEPT !.req = q, !.at = now]
                ELSE consumer
        IN  IF early # "none"
            THEN /\ cons' = [cons EXCEPT ![c] = asked(Answered(early))]
                 /\ broker' = broker
            ELSE /\ broker' = [broker EXCEPT ![recentStreamId] = r.broker]
                 /\ cons' = [cons EXCEPT ![c] = asked(
                                IF r.stream
                                THEN Attached(recentStreamId, "broker", r.replay)
                                ELSE Fallback(q.chat, now))]
    /\ UNCHANGED <<ledgerVars, storeVars, calls, turns, brokerUp, otherVars, gens>>

Reconnect(k) == ReconnectOf(k, FALSE)

(***************************************************************************)
(* Votes, and DELETE /api/chat?id= (src/unnamed/part_005, deleteChatById   *)
(* in src/lib/db/queries.ts).  deleteChatById is four statements outside a *)
(* transaction, so a step is one statement.                                *)
(***************************************************************************)
MessageId(m) == <<m.turn, m.role>>

MessageIdsOf(rows, chatId) ==
    {MessageId(rows[i]) : i \in {j \in 1..Len(rows) : rows[j].chatId = chatId}}

\* The messages a vote is cast on are replies.
AssistantIdsOf(rows, chatId) ==
    {id \in MessageIdsOf(rows, chatId) : id[2] = "assistant"}

VoteRow(chatId, messageId, type) ==
    [chatId |-> chatId, messageId |-> messageId, isUpvoted |-> type = "up"]

VoteTypes == {"up", "down"}

\* voteMessage: a vote on the message is updated where its chat matches,
\* otherwise one is inserted, which the foreign keys of Vote_v2 allow only
\* while the chat and the message exist.
voteMessage(rows, chatId, messageId, type) ==
    IF \E v \in rows : v.messageId = messageId
    THEN {IF v.messageId = messageId /\ v.chatId = chatId
          THEN [v EXCEPT !.isUpvoted = type = "up"] ELSE v : v \in rows}
    ELSE IF /\ TRUE \in InsertOutcomes(chats, chatId)
            /\ \E c \in ChatIds : messageId \in MessageIdsOf(messages, c)
         THEN rows \cup {VoteRow(chatId, messageId, type)}
         ELSE rows

VoteMessage ==
    /\ \E chatId \in ChatIds, type \in VoteTypes,
          messageId \in UNION {AssistantIdsOf(messages, c) : c \in ChatIds} :
          votes' = voteMessage(votes, chatId, messageId, type)
    /\ UNCHANGED <<ledgerVars, storeVars, calls, turns, brokerUp, deletes,
                   flights, streamVars>>

\* searchParams.get('id') of a request without the parameter.
NoId == "none"

\* A request without id is answered before its session is read, so one session
\* stands for all.
DeleteTargets(session) ==
    IF session = NoSession THEN {NoId} \cup ChatIds ELSE ChatIds

DeleteAnswered(req, status) == [req EXCEPT !.pc = "done", !.status = status]

NotOwner_Never(chat, session) == FALSE

\* chat.userId !== session.user.id
NotOwner(chat, session) == chat.userId # session

\* The handler up to deleteChatById: a request without id is answered 404, one
\* without a session 401; getChatById failing, or finding no chat (chat.userId
\* then throws), 500; the chat of another user 403.
DeleteAdmit(d) ==
    /\ deletes[d].pc = "idle"
    /\ \E id \in DeleteTargets(d), readOk \in BOOLEAN :
        LET req == [deletes[d] EXCEPT !.id = id]
        IN  deletes' = [deletes EXCEPT ![d] =
                IF id = NoId THEN DeleteAnswered(req, 404)
                ELSE IF d = NoSession THEN DeleteAnswered(req, 401)
                ELSE IF ~readOk \/ chats[id] = Null THEN DeleteAnswered(req, 500)
                ELSE IF NotOwner(chats[id], d) THEN DeleteAnswered(req, 403)
                ELSE [req EXCEPT !.pc = "vote"]]
    /\ UNCHANGED <<ledgerVars, storeVars, calls, turns, brokerUp, votes,
                   flights, streamVars>>

\* A statement of deleteChatById that fails is rethrown and answered 500.
DeleteMoves(d, ok, to) ==
    deletes' = [deletes EXCEPT ![d] =
                   IF ok THEN [@ EXCEPT !.pc = to] ELSE DeleteAnswered(@, 500)]

\* db.delete(vote).where(eq(vote.chatId, id))
DeleteVotes(d) ==
    /\ deletes[d].pc = "vote"
    /\ \E ok \in BOOLEAN :
        /\ votes' = IF ok THEN {v \in votes : v.chatId # deletes[d].id} ELSE votes
        /\ DeleteMoves(d, ok, "message")
    /\ UNCHANGED <<ledgerVars, storeVars, calls, turns, brokerUp, flights,
                   streamVars>>

\* db.delete(message).where(eq(message.chatId, id)): it fails while a vote
\* references one of the messages.
DeleteMessages(d) ==
    /\ deletes[d].pc = "message"
    /\ \E ok \in IF \E v \in votes :
                        v.messageId \in MessageIdsOf(messages, deletes[d].id)
                 THEN {FALSE} ELSE BOOLEAN :
        /\ messages' = IF ok
                       THEN SelectSeq(messages,
                                      LAMBDA m : m.chatId # deletes[d].id)
                       ELSE messages
        /\ DeleteMoves(d, ok, "stream")
    /\ UNCHANGED <<ledgerVars, chats, memories, streams, calls, turns, brokerUp,
                   votes, flights, streamVars>>

\* db.delete(stream).where(eq(stream.chatId, id))
DeleteStreams(d) ==
    /\ deletes[d].pc = "stream"
    /\ \E ok \in BOOLEAN :
        /\ streams' = IF ok
                      THEN SelectSeq(streams, LAMBDA r : r.chatId # deletes[d].id)
                      ELSE streams
        /\ DeleteMoves(d, ok, "chat")
    /\ UNCHANGED <<ledgerVars, chats, messages, memories, calls, turns, brokerUp,
                   votes, flights, streamVars>>

\* Rows of the three tables that reference the chat.
Referenced(chatId) ==
    \/ \E v \in votes : v.chatId = chatId
    \/ \E i \in 1..Len(messages) : messages[i].chatId = chatId
    \/ \E i \in 1..Len(streams) : streams[i].chatId = chatId

\* db.delete(chat).where(eq(chat.id, id)).returning(): it fails while a row
\* references the chat; the handler then answers 200 with the deleted rows.
DeleteChat(d) ==
    /\ deletes[d].pc = "chat"
    /\ \E ok \in IF Referenced(deletes[d].id) THEN {FALSE} ELSE BOOLEAN :
        /\ chats' = IF ok THEN [chats EXCEPT ![deletes[d].id] = Null] ELSE chats
        /\ deletes' = [deletes EXCEPT ![d] =
                          DeleteAnswered(@, IF ok THEN 200 ELSE 500)]
    /\ UNCHANGED <<ledgerVars, messages, memories, streams, calls, turns,
                   brokerUp, votes, flights, streamVars>>

(***************************************************************************)
(* Specifications.                                                         *)
(***************************************************************************)
vars == <<adminVars, txs, ledgerVars, chatVars>>

NoTx == txs = [T \in TxIds |-> IdleTx]

\* The chat side while no chat request is made.
ChatIdle ==
    /\ chats = [c \in ChatIds |-> Null]
    /\ messages = <<>>
    /\ memories = <<>>
    /\ streams = <<>>
    /\ calls = {}
    /\ turns = [t \in Turns |-> IdleTurn]
    /\ gens = [t \in Turns |-> NoGen]
    /\ brokerUp = TRUE
    /\ votes = {}
    /\ deletes = [d \in DeleteSessions |-> IdleDelete]
    /\ flights = NoFlights
    /\ broker = [s \in Turns |-> NoStream]
    /\ cons = [c \in ConsumerIds |-> FreeConsumer]

\* Sequential requests to the admin prompt routes.
Init == AdminInit /\ NoTx /\ LedgerIdle /\ ChatIdle

Next ==
    \/ AdminCreate
    \/ AdminUpdate
    \/ AdminDelete

Spec == Init /\ [][Next]_vars

\* Sequential requests of an administrator to the admin prompt routes,
\* interleaved with the assembler's reads of the active prompt.  Requests
\* the routes reject change neither the store nor the cache.
CacheInit == Init

CacheSessions == {"adm"}

CacheTexts == {JUndefined, JString(" A "), JString("B")}

CacheNext ==
    \/ AdminCreateOf(CacheSessions, CacheTexts)
    \/ AdminUpdateOf(CacheSessions, CacheTexts)
    \/ AdminDeleteOf(CacheSessions)
    \/ AssemblerRead

SpecCache == CacheInit /\ [][CacheNext]_vars

\* Concurrent storage transactions on admin_prompts.
TxSpecInit == TxInit /\ LedgerIdle /\ ChatIdle

SpecTx == TxSpecInit /\ [][TxNext]_vars

\* The ledger: records, the clock, and the admission read.
LedgerSpecInit == AdminInit /\ NoTx /\ LedgerInit /\ ChatIdle

LedgerSpecNext ==
    \/ Tick /\ UNCHANGED <<adminVars, txs, chatVars>>
    \/ LedgerRecord /\ UNCHANGED <<adminVars, txs, chatVars>>
    \/ LedgerSum /\ UNCHANGED <<adminVars, txs, chatVars>>

SpecLedger == LedgerSpecInit /\ [][LedgerSpecNext]_vars

\* Ledgers a turn request may find: nothing, or one record of the day that
\* puts a user just under, at, or over the quota of its class.
SeedLedgers ==
    {<<>>}
    \cup {<<UsageRow(u, "c1", maxTokensPerDay(UserType(u)) - 1, c, 0, 0)>> :
            u \in Users, c \in CompletionCounts}

\* Chats a turn request may find: none, or one another user started.
SeedChats ==
    {[c \in ChatIds |-> Null],
     [c \in ChatIds |-> ChatRow("reg", "private", 0)]}

\* Turn requests: the POST /api/chat handler, from the request to its
\* response.  What the generation it starts does is followed in SpecStream.
TurnInit ==
    /\ AdminInit /\ NoTx
    /\ now = 0
    /\ usage \in SeedLedgers
    /\ resultShape \in ResultShapes
    /\ lastSum = NoSum
    /\ chats \in SeedChats
    /\ messages = <<>>
    /\ memories = <<>>
    /\ streams = <<>>
    /\ calls = {}
    /\ turns = [t \in Turns |-> IdleTurn]
    /\ gens = [t \in Turns |-> NoGen]
    /\ brokerUp = TRUE
    /\ votes = {}
    /\ deletes = [d \in DeleteSessions |-> IdleDelete]
    /\ flights = NoFlights
    /\ broker = [s \in Turns |-> NoStream]
    /\ cons = [c \in ConsumerIds |-> FreeConsumer]

TurnNext ==
    \/ \E t \in Turns : PostAdmit(t) /\ UNCHANGED <<adminVars, txs>>
    \/ \E t \in Turns : PostPersist(t) /\ UNCHANGED <<adminVars, txs>>
    \/ \E t \in Turns : PostCreateStream(t) /\ UNCHANGED <<adminVars, txs>>
    \/ \E t \in Turns : PostRespond(t) /\ UNCHANGED <<adminVars, txs>>

SpecTurn == TurnInit /\ [][TurnNext]_vars

\* One turn request, the generation it starts, and its consumers: the
\* requester and reconnections.  The request is a regular user's, with text
\* in it, and its ledger read succeeds: with no usage on record every class
\* is admitted, and the stream does not depend on the rest.
StreamTurns == {1}

StreamRequests ==
    {req \in Requests :
        \/ ~req.bodyOk
        \/ req.session = NoSession
        \/ req.session = "reg" /\ req.readOk /\ req.hasText}

StreamInit ==
    /\ AdminInit /\ NoTx /\ LedgerIdle
    /\ chats = [c \in ChatIds |-> Null]
    /\ messages = <<>>
    /\ memories = <<>>
    /\ streams = <<>>
    /\ calls = {}
    /\ turns = [t \in Turns |-> IdleTurn]
    /\ gens = [t \in Turns |-> NoGen]
    /\ brokerUp \in BOOLEAN
    /\ votes = {}
    /\ deletes = [d \in DeleteSessions |-> IdleDelete]
    /\ flights = NoFlights
    /\ broker = [s \in Turns |-> NoStream]
    /\ cons = [c \in ConsumerIds |-> FreeConsumer]

GenStep(t) == GenChunk(t) \/ GenFinish(t) \/ GenFail(t)

StreamNext ==
    \/ \E t \in StreamTurns : PostAdmitOf(t, StreamRequests) /\ UNCHANGED <<adminVars, txs>>
    \/ \E t \in StreamTurns : PostPersist(t) /\ UNCHANGED <<adminVars, txs>>
    \/ \E t \in StreamTurns : PostCreateStream(t) /\ UNCHANGED <<adminVars, txs>>
    \/ \E t \in StreamTurns : PostRespond(t) /\ UNCHANGED <<adminVars, txs>>
    \/ \E t \in StreamTurns : GenChunk(t) /\ UNCHANGED <<adminVars, txs>>
    \/ \E t \in StreamTurns : GenFinish(t) /\ UNCHANGED <<adminVars, txs>>
    \/ \E t \in StreamTurns : GenFail(t) /\ UNCHANGED <<adminVars, txs>>
    \/ \E s \in StreamTurns : BrokerDrainEmpty(s) /\ UNCHANGED <<adminVars, txs>>
    \/ \E k \in Reconnects : Reconnect(k) /\ UNCHANGED <<adminVars, txs>>
    \/ \E c \in ConsumerIds : ConsumerReceive(c) /\ UNCHANGED <<adminVars, txs>>
    \/ \E c \in ConsumerIds : ConsumerDetach(c) /\ UNCHANGED <<adminVars, txs>>

SpecStream == StreamInit /\ [][StreamNext]_vars

\* The model service and the hosting keep a started generation going, and
\* the broker keeps pumping: the steps of a generation and the end of an
\* empty stream are taken when they stay possible.
FairStream ==
    /\ SpecStream
    /\ \A t \in StreamTurns : WF_vars(GenStep(t) /\ UNCHANGED <<adminVars, txs>>)
    /\ \A s \in StreamTurns : WF_vars(BrokerDrainEmpty(s) /\ UNCHANGED <<adminVars, txs>>)

\* Reconnections over time: one turn of a regular user, its generation, the
\* clock, and GET requests noted with their responses.  The clock is moved
\* once the generation has ended, to the instants around the freshness
\* window of a turn persisted at 0.
ResumePosts ==
    {req \in Requests :
        req.bodyOk /\ req.session = "reg" /\ req.readOk /\ req.hasText}

ResumeInstants == {15000, 15500, 16000}

Elapse ==
    /\ \A t \in StreamTurns : gens[t].state \in {"finished", "failed"}
    /\ \E t \in ResumeInstants : t > now /\ now' = t
    /\ UNCHANGED <<adminVars, txs, usage, resultShape, lastSum, chatVars>>

ResumeInit == StreamInit

ResumeNext ==
    \/ \E t \in StreamTurns : PostAdmitOf(t, ResumePosts) /\ UNCHANGED <<adminVars, txs>>
    \/ \E t \in StreamTurns : PostPersist(t) /\ UNCHANGED <<adminVars, txs>>
    \/ \E t \in StreamTurns : PostCreateStream(t) /\ UNCHANGED <<adminVars, txs>>
    \/ \E t \in StreamTurns : PostRespond(t) /\ UNCHANGED <<adminVars, txs>>
    \/ \E t \in StreamTurns : GenChunk(t) /\ UNCHANGED <<adminVars, txs>>
    \/ \E t \in StreamTurns : GenFinish(t) /\ UNCHANGED <<adminVars, txs>>
    \/ \E t \in StreamTurns : GenFail(t) /\ UNCHANGED <<adminVars, txs>>
    \/ \E s \in StreamTurns : BrokerDrainEmpty(s) /\ UNCHANGED <<adminVars, txs>>
    \/ \E k \in Reconnects : ReconnectOf(k, TRUE) /\ UNCHANGED <<adminVars, txs>>
    \/ Elapse

SpecResume == ResumeInit /\ [][ResumeNext]_vars

\* A turn at the edge of the quota: a regular user one token under the
\* quota sends a turn, the turn's finalizer records its usage, the clock
\* moves, and the admission check is made again for the user.
QuotaRequests ==
    {req \in Requests :
        /\ req.bodyOk /\ req.session = "reg" /\ req.readOk /\ req.hasText
        /\ req.visibility = "private"}

QuotaInit ==
    /\ AdminInit /\ NoTx
    /\ now = 0
    /\ usage = <<UsageRow("reg", "c1", maxTokensPerDay("regular") - 1, 0, 0, 0)>>
    /\ resultShape \in ResultShapes
    /\ lastSum = NoSum
    /\ ChatIdle

\* The admission check of a further turn request of a signed-in user
\* (part of POST up to its 429 or its going on).
AdmissionCheck ==
    \E req \in QuotaRequests :
        LET out == Admission(req, usage, now, resultShape)
        IN  /\ lastSum' = [asked |-> TRUE, user |-> req.session,
                           readOk |-> req.readOk, at |-> now,
                           records |-> Len(usage), value |-> out.used,
                           status |-> out.status]
            /\ UNCHANGED <<now, usage, resultShape>>

QuotaNext ==
    \/ \E t \in StreamTurns : PostAdmitOf(t, QuotaRequests) /\ UNCHANGED <<adminVars, txs>>
    \/ \E t \in StreamTurns : PostPersist(t) /\ UNCHANGED <<adminVars, txs>>
    \/ \E t \in StreamTurns : PostCreateStream(t) /\ UNCHANGED <<adminVars, txs>>
    \/ \E t \in StreamTurns : PostRespond(t) /\ UNCHANGED <<adminVars, txs>>
    \/ \E t \in StreamTurns : GenChunk(t) /\ UNCHANGED <<adminVars, txs>>
    \/ \E t \in StreamTurns : GenFinish(t) /\ UNCHANGED <<adminVars, txs>>
    \/ \E t \in StreamTurns : GenFail(t) /\ UNCHANGED <<adminVars, txs>>
    \/ Tick /\ UNCHANGED <<adminVars, txs, chatVars>>
    \/ AdmissionCheck /\ UNCHANGED <<adminVars, txs, chatVars>>

SpecQuota == QuotaInit /\ [][QuotaNext]_vars

\* The same turn beside a further turn request of the user: the further
\* request passes its admission check, and its finalizer records its usage
\* when its generation has ended.
FurtherTurns == {2}

FurtherFinish ==
    \E t \in FurtherTurns, rep \in UsageReports :
        /\ lastSum.asked /\ lastSum.status # 429
        /\ \A i \in 1..Len(usage) : usage[i].turn # t
        /\ usage' = recordUsage(usage, lastSum.user, "c1", rep.promptTokens,
                                rep.completionTokens, now, t, TRUE)
        /\ UNCHANGED <<now, resultShape, lastSum>>

OverlapNext ==
    \/ \E t \in StreamTurns : PostAdmitOf(t, QuotaRequests) /\ UNCHANGED <<adminVars, txs>>
    \/ \E t \in StreamTurns : PostPersist(t) /\ UNCHANGED <<adminVars, txs>>
    \/ \E t \in StreamTurns : PostCreateStream(t) /\ UNCHANGED <<adminVars, txs>>
    \/ \E t \in StreamTurns : PostRespond(t) /\ UNCHANGED <<adminVars, txs>>
    \/ \E t \in StreamTurns : GenChunk(t) /\ UNCHANGED <<adminVars, txs>>
    \/ \E t \in StreamTurns : GenFinish(t) /\ UNCHANGED <<adminVars, txs>>
    \/ AdmissionCheck /\ UNCHANGED <<adminVars, txs, chatVars>>
    \/ FurtherFinish /\ UNCHANGED <<adminVars, txs, chatVars>>

SpecOverlap == QuotaInit /\ [][OverlapNext]_vars

\* Reads of the active prompt over every content of the table, also
\* contents with several active rows, which overlapping transactions can
\* leave; a read may fail in storage.
StoredTexts == {"A", "B"}

AnyStores ==
    UNION {[D -> [text : StoredTexts, active : BOOLEAN,
                  version : 1..(MaxVersion + 1), createdAt : {0},
                  createdBy : {"adm"}]] : D \in SUBSET PromptIds}

\* Rows are created at distinct instants, in the order of their ids.
Dated(store) == [i \in DOMAIN store |-> [store[i] EXCEPT !.createdAt = i]]

ActiveInit ==
    /\ prompts \in {Dated(store) : store \in AnyStores}
    /\ nextPromptId = MaxPrompts + 1
    /\ cache = NoCache
    /\ lastReq = [op |-> "none", status |-> 0]
    /\ NoTx /\ LedgerIdle /\ ChatIdle

\* getActiveAdminPrompt with its try and catch: null when the query fails.
ActiveRead ==
    /\ \E readOk \in BOOLEAN :
          lastReq' = [op |-> "getActive", status |-> 0, readOk |-> readOk,
                      result |-> IF readOk THEN getActiveAdminPrompt(prompts)
                                 ELSE Null]
    /\ UNCHANGED <<prompts, nextPromptId, cache, txs, restVars>>

ActiveNext == ActiveRead

SpecActive == ActiveInit /\ [][ActiveNext]_vars

\* A later turn on a conversation that already has a turn and its handle:
\* the owner's earlier turn, numbered 0, left its messages and its handle, and
\* its stream is still live or has concluded.  The owner sends a turn, and
\* reconnect requests arrive at any point of it.
EarlierTurn == 0

EarlierStreams ==
    {[state |-> st, by |-> "post", src |-> "turn", buf |-> <<Chunk(1)>>] :
        st \in {"live", "done"}}

HandleInit ==
    /\ AdminInit /\ NoTx
    /\ now = TickMs
    /\ usage = <<>>
    /\ resultShape = "array"
    /\ lastSum = NoSum
    /\ chats = [c \in ChatIds |-> ChatRow("reg", "private", EarlierTurn)]
    /\ messages = <<MessageRow("c1", "user", 0, EarlierTurn),
                    MessageRow("c1", "assistant", 0, EarlierTurn)>>
    /\ memories = <<>>
    /\ streams = <<StreamRow(EarlierTurn, "c1", 0)>>
    /\ calls = {}
    /\ turns = [t \in Turns |-> IdleTurn]
    /\ gens = [t \in Turns |-> NoGen]
    /\ brokerUp = TRUE
    /\ votes = {}
    /\ deletes = [d \in DeleteSessions |-> IdleDelete]
    /\ flights = NoFlights
    /\ \E earlier \in EarlierStreams :
          broker = [s \in {EarlierTurn} \cup Turns |->
                       IF s = EarlierTurn THEN earlier ELSE NoStream]
    /\ cons = [c \in ConsumerIds |-> FreeConsumer]

HandleNext ==
    \/ \E t \in StreamTurns : PostAdmitOf(t, ResumePosts) /\ UNCHANGED <<adminVars, txs>>
    \/ \E t \in StreamTurns : PostPersist(t) /\ UNCHANGED <<adminVars, txs>>
    \/ \E t \in StreamTurns : PostCreateStream(t) /\ UNCHANGED <<adminVars, txs>>
    \/ \E t \in StreamTurns : PostRespond(t) /\ UNCHANGED <<adminVars, txs>>
    \/ \E t \in StreamTurns : GenChunk(t) /\ UNCHANGED <<adminVars, txs>>
    \/ \E t \in StreamTurns : GenFinish(t) /\ UNCHANGED <<adminVars, txs>>
    \/ \E t \in StreamTurns : GenFail(t) /\ UNCHANGED <<adminVars, txs>>
    \/ \E s \in StreamTurns : BrokerDrainEmpty(s) /\ UNCHANGED <<adminVars, txs>>
    \/ \E k \in Reconnects : ReconnectOf(k, TRUE) /\ UNCHANGED <<adminVars, txs>>

\* One assembler read and one admin update over any table content, the slot
\* empty or holding the active row.
RaceInit ==
    /\ prompts \in {Dated(store) : store \in AnyStores}
    /\ nextPromptId = MaxPrompts + 1
    /\ cache \in {NoCache}
                 \cup {Cached(row) : row \in {getActiveAdminPrompt(prompts)} \ {Null}}
    /\ lastReq = [op |-> "none", status |-> 0]
    /\ NoTx /\ LedgerIdle /\ ChatIdle

RaceNext ==
    \/ ReadFetch
    \/ ReadInstall
    \/ MutateStore
    \/ MutateInvalidate

SpecRace == RaceInit /\ [][RaceNext]_vars

SpecHandle == HandleInit /\ [][HandleNext]_vars

\* The same conversation while its owner sends a turn, votes are cast on its
\* messages, and requests to delete it arrive from its owner, from another
\* user and from nobody.
DeleteNext ==
    \/ \E t \in StreamTurns : PostAdmitOf(t, ResumePosts) /\ UNCHANGED <<adminVars, txs>>
    \/ \E t \in StreamTurns : PostPersist(t) /\ UNCHANGED <<adminVars, txs>>
    \/ \E t \in StreamTurns : PostCreateStream(t) /\ UNCHANGED <<adminVars, txs>>
    \/ \E t \in StreamTurns : PostRespond(t) /\ UNCHANGED <<adminVars, txs>>
    \/ \E t \in StreamTurns : GenFinish(t) /\ UNCHANGED <<adminVars, txs>>
    \/ VoteMessage /\ UNCHANGED <<adminVars, txs>>
    \/ \E d \in DeleteSessions : DeleteAdmit(d) /\ UNCHANGED <<adminVars, txs>>
    \/ \E d \in DeleteSessions : DeleteVotes(d) /\ UNCHANGED <<adminVars, txs>>
    \/ \E d \in DeleteSessions : DeleteMessages(d) /\ UNCHANGED <<adminVars, txs>>
    \/ \E d \in DeleteSessions : DeleteStreams(d) /\ UNCHANGED <<adminVars, txs>>
    \/ \E d \in DeleteSessions : DeleteChat(d) /\ UNCHANGED <<adminVars, txs>>

SpecDelete == HandleInit /\ [][DeleteNext]_vars

\* Requests of every kind of session to every admin route, with bodies that
\* pass and bodies that fail validation, next to one turn request.
GuardTexts == {JUndefined, JNumber, JString(""), JString("  "), JString("B")}

GuardFlags == {JUndefined, JNumber, JBoolean(TRUE)}

\* Rows the guarded requests may create.
GuardPrompts == 1

GuardRequests ==
    {req \in Requests :
        \/ ~req.bodyOk
        \/ /\ req.session = "reg" /\ req.readOk /\ req.hasText
           /\ req.chat = "c1" /\ req.visibility = "private"}

GuardInit ==
    /\ AdminInit /\ NoTx /\ ChatIdle
    /\ now = 0
    /\ usage = <<>>
    /\ resultShape \in ResultShapes
    /\ lastSum = NoSum

GuardNext ==
    \/ \E session \in AdminSessions, text \in GuardTexts, isActive \in GuardFlags :
          nextPromptId <= GuardPrompts /\ AdminCreateWith(session, text, isActive)
    \/ \E session \in AdminSessions, id \in 1..GuardPrompts :
       \E text \in GuardTexts, isActive \in GuardFlags :
          AdminUpdateWith(session, id, text, isActive)
    \/ \E session \in AdminSessions, id \in 1..GuardPrompts :
          AdminDeleteWith(session, id)
    \/ \E session \in AdminSessions, op \in {"list", "tokens"} :
          AdminOther(session, op, JUndefined, FALSE)
    \/ \E session \in AdminSessions, found \in BOOLEAN :
          AdminOther(session, "masterGet", JUndefined, found)
    \/ \E session \in AdminSessions, text \in GuardTexts, updated \in BOOLEAN :
          AdminOther(session, "masterUpdate", text, updated)
    \/ \E t \in StreamTurns :
          PostAdmitOf(t, GuardRequests) /\ UNCHANGED <<adminVars, txs>>

SpecGuard == GuardInit /\ [][GuardNext]_vars

\* Assembly of the system instruction: one turn request of a signed-in
\* user over a store that may hold an active prompt and a memories table
\* that may hold fragments of the requester and of another user, stored in
\* an order that is not the order of their distances.
AssembleRequests ==
    {req \in Requests :
        /\ req.bodyOk /\ req.session \in {"reg", "stu"} /\ req.readOk
        /\ req.visibility = "private"}

OldRow(userId, k) ==
    [user_id |-> userId, turn |-> 0, content |-> <<"old", userId, k>>]

SeedMemories ==
    {[i \in 1..(n + m) |->
         IF i <= m THEN OldRow("stu", i) ELSE OldRow("reg", n + m + 1 - i)] :
       n \in 0..MaxFragments, m \in {0, 1, MaxFragments}}

SeedPrompts ==
    {Empty, createAdminPrompt(Empty, 1, "A", "adm", TRUE).store}

AssembleInit ==
    /\ prompts \in SeedPrompts
    /\ nextPromptId = Cardinality(DOMAIN prompts) + 1
    /\ cache = NoCache
    /\ lastReq = [op |-> "none", status |-> 0]
    /\ NoTx /\ LedgerIdle
    /\ chats = [c \in ChatIds |-> Null]
    /\ messages = <<>>
    /\ memories \in SeedMemories
    /\ streams = <<>>
    /\ calls = {}
    /\ turns = [t \in Turns |-> IdleTurn]
    /\ gens = [t \in Turns |-> NoGen]
    /\ brokerUp = TRUE
    /\ votes = {}
    /\ deletes = [d \in DeleteSessions |-> IdleDelete]
    /\ flights = NoFlights
    /\ broker = [s \in Turns |-> NoStream]
    /\ cons = [c \in ConsumerIds |-> FreeConsumer]

AssembleNext ==
    \/ \E t \in StreamTurns : PostAdmitOf(t, AssembleRequests) /\ UNCHANGED <<adminVars, txs>>
    \/ \E t \in StreamTurns : PostPersist(t) /\ UNCHANGED <<adminVars, txs>>
    \/ \E t \in StreamTurns : PostCreateStream(t) /\ UNCHANGED <<adminVars, txs>>
    \/ \E t \in StreamTurns : PostRespondOf(t, Assemblies) /\ UNCHANGED <<adminVars, txs>>

SpecAssemble == AssembleInit /\ [][AssembleNext]_vars

(***************************************************************************)
(* Claims about the Active-Prompt Store under sequential requests.         *)
(***************************************************************************)
ValidText(v) == v.t = "string" /\ Trim(v.s) # ""
ValidFlag(v) == v.t = "boolean"

\* C1: after any sequence of whole create, update and delete requests, at
\* most one row of admin_prompts has active = true.
C1_AtMostOneActive == Cardinality(ActiveIds(prompts)) <= 1

\* C1 witness: an activating update has run on a store of two rows, the other
\* of which was the active one before.
C1_Witness ==
    /\ lastReq.op = "update" /\ lastReq.status = 200
    /\ lastReq.isActive = JBoolean(TRUE)
    /\ Cardinality(DOMAIN prompts) = 2
    /\ lastReq.activeBefore # {} /\ lastReq.id \notin lastReq.activeBefore
    /\ ActiveIds(prompts) = {lastReq.id}

\* C9: an accepted update of an existing row that supplies a text yields
\* version = previous version + 1, with or without an active flag, and an
\* update that supplies only an active flag leaves the version unchanged.
C9_VersionOnUpdate ==
    [][(/\ lastReq'.op = "update"
        /\ IsAdmin(lastReq'.session)
        /\ lastReq'.id \in DOMAIN prompts
        /\ lastReq'.text = JUndefined \/ ValidText(lastReq'.text)
        /\ lastReq'.isActive = JUndefined \/ ValidFlag(lastReq'.isActive)
        /\ ~(lastReq'.text = JUndefined /\ lastReq'.isActive = JUndefined))
       => (/\ lastReq'.status = 200
           /\ lastReq'.id \in DOMAIN prompts'
           /\ prompts'[lastReq'.id].version =
                 IF lastReq'.text # JUndefined
                 THEN prompts[lastReq'.id].version + 1
                 ELSE prompts[lastReq'.id].version
           /\ lastReq'.result.version = prompts'[lastReq'.id].version)]_vars

\* C9 witness: an update supplying both a text and an active flag has been
\* accepted and the row is at version 2.
C9_Witness ==
    /\ lastReq.op = "update" /\ lastReq.status = 200
    /\ lastReq.text # JUndefined /\ lastReq.isActive = JBoolean(TRUE)
    /\ prompts[lastReq.id].version = 2

\* C10: an accepted create with makeActive = true leaves the new row, at
\* version 1, as the only active row, so that getActive() returns it and every
\* row that was active is inactive; a create with makeActive false or absent
\* inserts an inactive version-1 row and changes no existing row.
C10_CreateActivation ==
    [][(lastReq'.op = "create" /\ lastReq'.status = 201)
       => LET id == lastReq'.id
              new == prompts'[id]
          IN  /\ id \notin DOMAIN prompts
              /\ DOMAIN prompts' = DOMAIN prompts \cup {id}
              /\ new.version = 1
              /\ new.text = Trim(lastReq'.text.s)
              /\ IF lastReq'.isActive = JBoolean(TRUE)
                 THEN /\ ActiveIds(prompts') = {id}
                      /\ getActiveAdminPrompt(prompts') =
                            [text |-> new.text, version |-> 1]
                      /\ \A j \in DOMAIN prompts :
                            prompts'[j] = [prompts[j] EXCEPT !.active = FALSE]
                 ELSE /\ ~new.active
                      /\ \A j \in DOMAIN prompts : prompts'[j] = prompts[j]]_vars

\* C10 witness: B was created active while A was the active row; B is now the
\* only active row and A is still stored.
C10_Witness ==
    /\ lastReq.op = "create" /\ lastReq.status = 201
    /\ lastReq.isActive = JBoolean(TRUE)
    /\ lastReq.id = 2 /\ lastReq.activeBefore = {1}
    /\ 1 \in DOMAIN prompts /\ ~prompts[1].active
    /\ getActiveAdminPrompt(prompts) = [text |-> prompts[2].text, version |-> 1]

(***************************************************************************)
(* Claims about concurrent activations.                                    *)
(***************************************************************************)
TxAllCommitted == \A T \in TxIds : txs[T].pc \in {"idle", "committed"}

\* C2: when two concurrent activations of two different rows (creates with
\* makeActive = true, or updates with active = true), each inside its own
\* storage transaction, have both committed, at most one row is active.
C2_ConcurrentActivation ==
    (/\ TxAllCommitted
     /\ \E T, U \in TxIds :
           /\ T # U /\ txs[T].id # txs[U].id
           /\ txs[T].pc = "committed" /\ txs[T].isActive
           /\ txs[U].pc = "committed" /\ txs[U].isActive
     /\ \A T \in TxIds : txs[T].pc = "committed" => txs[T].isActive)
    => Cardinality(ActiveIds(prompts)) <= 1

(***************************************************************************)
(* Claims about the Usage Ledger.                                          *)
(***************************************************************************)
\* The records of one user inside the trailing 24 hours, as a set of
\* positions, and their total: independent of the order of insertion.
InWindow(userId) ==
    {i \in 1..Len(usage) :
        usage[i].user_id = userId /\ usage[i].created_at >= now - DayMs}

RECURSIVE TotalOf(_)
TotalOf(positions) ==
    IF positions = {} THEN 0
    ELSE LET i == CHOOSE j \in positions : TRUE
         IN  usage[i].prompt_tokens + usage[i].completion_tokens
                + TotalOf(positions \ {i})

\* C4: whenever the ledger read succeeds, the usedTokens value the admission
\* check gets equals the sum of prompt + completion tokens over exactly the
\* asking user's records stamped at or after now - 24h, whatever the order
\* the records were inserted in.
C4_WindowSum ==
    [][(lastSum' # lastSum /\ lastSum'.readOk)
       => lastSum'.value = TotalOf(InWindow(lastSum'.user))]_vars

(***************************************************************************)
(* Claims about admission.                                                 *)
(***************************************************************************)
\* The quota of each class, as the claims state it.
StatedQuota(session) ==
    CASE UserType(session) = "student" -> 1000
      [] UserType(session) = "regular" -> 20000
      [] UserType(session) = "admin" -> 100000000

\* C3: an authorized turn request whose ledger read succeeds is denied with
\* the quota-exceeded rejection if and only if the tokens the user used in
\* the trailing 24 hours are at least the quota of the user's class.
C3_DeniedIffOverQuota ==
    [][\A t \in Turns :
        (/\ turns[t].pc = "idle"
         /\ turns'[t].pc # "idle"
         /\ turns'[t].status \notin {400, 401}
         /\ turns'[t].readOk)
        => (turns'[t].status = 429
            <=> TotalOf(InWindow(turns'[t].session)) >= StatedQuota(turns'[t].session))
      ]_vars

WrittenBy(t) ==
    \/ \E c \in ChatIds : chats[c] # Null /\ chats[c].turn = t
    \/ \E i \in 1..Len(messages) : messages[i].turn = t
    \/ \E i \in 1..Len(memories) : memories[i].turn = t
    \/ \E i \in 1..Len(streams) : streams[i].id = t
    \/ \E i \in 1..Len(usage) : usage[i].turn = t

CalledBy(t) == \E call \in calls : call[2] = t

\* C5: a denied turn request has written no chat, message, memory, stream
\* handle or usage record, has made no model or embedding call and started
\* no generation, and its message carries the numeric quota of the class.
C5_DenialCostsNothing ==
    \A t \in Turns :
        turns[t].status = 429
        => /\ ~WrittenBy(t)
           /\ ~CalledBy(t)
           /\ gens[t] = NoGen
           /\ broker[t] = NoStream
           /\ cons[<<"post", t>>] = FreeConsumer
           /\ turns[t].body.digits # <<>>
           /\ parseInt(turns[t].body.digits) = StatedQuota(turns[t].session)

C5_Witness ==
    \E t \in Turns :
        /\ turns[t].status = 429
        /\ turns[t].hasText
        /\ turns[t].session = "reg"
        /\ chats[turns[t].chat] = Null

(***************************************************************************)
(* Claims about the stream broker and the finalizer.                       *)
(***************************************************************************)
\* What the producer registered for a handle has emitted: the output of the
\* turn's generation when the turn registered it, nothing for the empty
\* stream of a reconnection.
Emitted(s) == IF broker[s].by = "post" THEN gens[s].out ELSE <<>>

Pending(c) == SelectSeq(cons[c].queue, LAMBDA ev : ev # EndEvent)

Persisted(t) ==
    /\ \E i \in 1..Len(messages) :
        messages[i].turn = t /\ messages[i].role = "assistant"
    /\ \E i \in 1..Len(usage) : usage[i].turn = t

Finalized(t) ==
    /\ gens[t].state = "finished"
    /\ gens[t].fin = 1
    /\ gens[t].fault = "none" => Persisted(t)

Left(t) == \E c \in ConsumerIds : cons[c].sid = t /\ cons[c].state = "gone"

\* C7: once a consumer of a running generation has gone away, the requester
\* included, the generation still comes to its end: the model output is
\* drained and the finalizer runs, persisting the assistant turn and the
\* usage unless a storage write fails, or the model call itself fails.
C7_DetachDoesNotCancel ==
    \A t \in StreamTurns :
        (gens[t].state = "running" /\ Left(t))
        ~> (Finalized(t) \/ gens[t].state = "failed")

C7_Witness ==
    \E t \in StreamTurns :
        /\ cons[<<"post", t>>].state = "gone"
        /\ Len(cons[<<"post", t>>].got) < Len(gens[t].out)
        /\ gens[t].state = "finished"
        /\ gens[t].fault = "none"
        /\ Persisted(t)

AssistantTurns(t) ==
    Cardinality({i \in 1..Len(messages) :
                    messages[i].turn = t /\ messages[i].role = "assistant"})

UsageRecords(t) == Cardinality({i \in 1..Len(usage) : usage[i].turn = t})

\* C8: the finalizer runs exactly once for a generation the model drains and
\* not at all otherwise, there is at most one assistant turn and one usage
\* record per generation, and usage records are only ever appended.
C8_FinalizedOnce ==
    [][/\ Len(usage') >= Len(usage)
       /\ \A i \in 1..Len(usage) : usage'[i] = usage[i]
       /\ \A t \in StreamTurns :
            /\ gens'[t].state = "finished" => gens'[t].fin = 1
            /\ gens'[t].state # "finished" => gens'[t].fin = 0
            /\ AssistantTurns(t)' <= 1
            /\ UsageRecords(t)' <= 1
      ]_vars

C8_Witness ==
    \E t \in StreamTurns, k \in Reconnects :
        /\ gens[t].state = "finished"
        /\ gens[t].fin = 1
        /\ AssistantTurns(t) = 1
        /\ UsageRecords(t) = 1
        /\ cons[<<"post", t>>].state = "gone"
        /\ cons[<<"get", k>>].resp = "stream"
        /\ cons[<<"get", k>>].sid = t

(***************************************************************************)
(* Deletion of the active prompt.                                          *)
(***************************************************************************)
\* The rows of the store other than id are the same before and after a step.
OthersKept(id) ==
    /\ DOMAIN prompts' = DOMAIN prompts \ {id}
    /\ \A j \in DOMAIN prompts' : prompts'[j] = prompts[j]

\* C11: a delete of the active row removes that row and promotes no other
\* row: afterwards no row is active, getActive() returns none, every other
\* row is unchanged, and an assembly of the system instruction that follows
\* the delete directly uses the fallback instruction.
C11_DeleteActivePromotesNone ==
    [][/\ (/\ lastReq'.op = "delete"
           /\ IsAdmin(lastReq'.session)
           /\ lastReq'.id \in ActiveIds(prompts))
          => (/\ lastReq'.status = 200
              /\ OthersKept(lastReq'.id)
              /\ ActiveIds(prompts') = {}
              /\ getActiveAdminPrompt(prompts') = Null)
       /\ (/\ lastReq.op = "delete" /\ lastReq.status = 200
           /\ lastReq.id \in lastReq.activeBefore
           /\ lastReq'.op = "assemble")
          => lastReq'.result = FallbackInstruction]_vars

\* C11 witness: the active row was deleted while another row was stored; that
\* row is still stored and inactive, and the slot is empty.
C11_Witness ==
    /\ lastReq.op = "delete" /\ lastReq.status = 200
    /\ lastReq.id \in lastReq.activeBefore
    /\ lastReq.result.active
    /\ prompts # Empty
    /\ ActiveIds(prompts) = {}
    /\ cache = NoCache

\* C12: deletion is forbidden while active: an administrator's delete of an
\* active row is refused and the row remains stored, unchanged.
C12_ActiveDeleteRefused ==
    [][(/\ lastReq'.op = "delete"
        /\ IsAdmin(lastReq'.session)
        /\ lastReq'.id \in ActiveIds(prompts))
       => (/\ lastReq'.status # 200
           /\ lastReq'.id \in DOMAIN prompts'
           /\ prompts'[lastReq'.id] = prompts[lastReq'.id])]_vars

(***************************************************************************)
(* Invalidation of the cached active prompt.                               *)
(***************************************************************************)
\* The admin request answered by this step is a successful create, a
\* successful update that supplies an active value, or a successful delete.
TouchesActiveFlag ==
    \/ lastReq'.op = "create" /\ lastReq'.status = 201
    \/ lastReq'.op = "update" /\ lastReq'.status = 200
                              /\ lastReq'.isActive # JUndefined
    \/ lastReq'.op = "delete" /\ lastReq'.status = 200

\* C13: every successful admin mutation that touches the active flag (a
\* create, an update that supplies an active value, any delete) leaves the
\* cached active prompt invalidated when its response is returned.
C13_MutationInvalidates ==
    [][TouchesActiveFlag => cache' = NoCache]_vars

(***************************************************************************)
(* Claims about reconnection.                                              *)
(***************************************************************************)
\* The request q is made by the owner of its conversation or the
\* conversation is public.
Authorized(q) ==
    /\ q.hasChatId /\ q.session # NoSession
    /\ chats[q.chat] # Null
    /\ chats[q.chat].visibility = "public" \/ chats[q.chat].userId = q.session

\* A stream handle is recorded for the conversation of q and the broker has
\* nothing left to give for the latest one.
NoBuffer(q) ==
    LET ids == getStreamIdsByChatId(streams, q.chat)
    IN  /\ brokerUp
        /\ Len(ids) > 0
        /\ broker[ids[Len(ids)].id].state = "done"

\* The most recent persisted turn of the conversation of q, or Null.
LastTurn(q) ==
    LET msgs == getMessagesByChatId(messages, q.chat)
    IN  IF Len(msgs) = 0 THEN Null ELSE msgs[Len(msgs)]

\* Milliseconds between the creation of the last turn and the request.
ElapsedMs(at, q) == at - LastTurn(q).createdAt

AssistantLast(q) == LastTurn(q) # Null /\ LastTurn(q).role = "assistant"

\* This step answers the reconnection of consumer c.
Resumes(c) == cons[c].state = "free" /\ cons'[c].state # "free"

\* The response carries nothing: an explicit empty, successful response.
EmptyOk(consumer) ==
    consumer.resp = "empty" /\ consumer.got = <<>> /\ consumer.queue = <<>>

\* C14: on a reconnect where the broker holds no buffer for the latest
\* stream and the most recent persisted turn is assistant-authored, if more
\* than 15 seconds, counted to the millisecond, have passed between that
\* turn's creation and the request, the response is the empty stream and
\* never the persisted turn.
C14_StaleTurnNotRestored ==
    [][\A c \in GetConsumers :
          LET q == cons'[c].req
          IN  (/\ Resumes(c)
               /\ Authorized(q) /\ NoBuffer(q) /\ AssistantLast(q)
               /\ ElapsedMs(cons'[c].at, q) > FreshSeconds * 1000)
              => EmptyOk(cons'[c])]_vars

\* C15: on a reconnect where the broker holds no buffer for the latest
\* stream: if the most recent persisted turn is assistant-authored and not
\* older than the freshness window, the response is exactly one final-message
\* event carrying that turn; if the conversation has no turns or its most
\* recent turn is user-authored, the response is explicitly empty and
\* successful.
C15_FallbackAnswers ==
    [][\A c \in GetConsumers :
          LET q == cons'[c].req
          IN  (Resumes(c) /\ Authorized(q) /\ NoBuffer(q))
              => /\ (/\ AssistantLast(q)
                     /\ ElapsedMs(cons'[c].at, q) <= FreshSeconds * 1000)
                    => (/\ cons'[c].resp = "restored"
                        /\ cons'[c].got =
                              << <<"append-message", LastTurn(q).turn>> >>
                        /\ cons'[c].queue = <<>>)
                 /\ ~AssistantLast(q) => EmptyOk(cons'[c])]_vars

\* C15 witness: one reconnection was answered with the persisted assistant
\* turn, made exactly 15 seconds after the turn was persisted.
C15_Witness ==
    \E c \in GetConsumers :
        /\ cons[c].resp = "restored"
        /\ cons[c].got = << <<"append-message", 1>> >>
        /\ cons[c].at = FreshSeconds * 1000
        /\ AssistantLast(cons[c].req)
        /\ ElapsedMs(cons[c].at, cons[c].req) = FreshSeconds * 1000

\* The other case of C15: a reconnection found the stream concluded and a
\* user-authored last turn, and was answered with the empty stream.
C15_WitnessUserLast ==
    \E c \in GetConsumers :
        /\ cons[c].resp = "empty"
        /\ LastTurn(cons[c].req) # Null
        /\ LastTurn(cons[c].req).role = "user"

\* Nothing is there to resume for q at the instant at: no stream handle is
\* recorded for its conversation, or the broker has no buffer for the latest
\* handle and the last persisted turn is not a fresh assistant turn.
NothingToResume(q, at) ==
    /\ brokerUp
    /\ \/ Len(getStreamIdsByChatId(streams, q.chat)) = 0
       \/ /\ NoBuffer(q)
          /\ ~(AssistantLast(q) /\ ElapsedMs(at, q) <= FreshSeconds * 1000)

\* C16: a reconnect by an authorized requester that finds nothing to resume
\* is answered with an explicit empty, successful response and never with an
\* error status.
C16_NothingToResumeIsEmpty ==
    [][\A c \in GetConsumers :
          LET q == cons'[c].req
          IN  (Resumes(c) /\ Authorized(q) /\ NothingToResume(q, cons'[c].at))
              => EmptyOk(cons'[c])]_vars

\* The requester of turn t reads the data stream of the generation itself
\* and has been sent all the generation has written.
StreamedDirectly(t) ==
    LET c == cons[<<"post", t>>]
    IN  /\ c.resp = "stream" /\ c.via = "direct" /\ c.sid = t
        /\ c.state \in {"open", "closed"} => c.got \o Pending(<<"post", t>>) = gens[t].out

\* C17: when no stream context can be created, a turn request whose handler
\* reaches its response is answered 200 with its generation started and
\* streamed directly to the requester, the generation is finalized as usual,
\* the broker is never used, and every reconnect is answered "no content".
C17_WithoutBroker ==
    [][~brokerUp =>
        /\ \A t \in StreamTurns :
            /\ (turns[t].pc = "handle" /\ turns'[t].pc # "handle")
               => (turns'[t].status = 200 /\ gens'[t].state = "running")
            /\ gens'[t].state # "none" => StreamedDirectly(t)'
            /\ gens'[t].state = "finished" => Finalized(t)'
            /\ broker'[t] = NoStream
        /\ \A c \in GetConsumers :
            cons'[c].state # "free"
            => (/\ cons'[c].state = "closed" /\ cons'[c].resp = "204"
                /\ cons'[c].got = <<>> /\ cons'[c].queue = <<>>)]_vars

\* C17 witness: without a broker the requester has read the whole reply, the
\* finalizer has persisted the turn and its usage, and a reconnect was
\* answered "no content".
C17_Witness ==
    \E t \in StreamTurns, k \in Reconnects :
        /\ ~brokerUp
        /\ cons[<<"post", t>>].state = "closed"
        /\ cons[<<"post", t>>].via = "direct"
        /\ cons[<<"post", t>>].got = gens[t].out
        /\ Len(gens[t].out) = MaxChunks
        /\ gens[t].state = "finished" /\ gens[t].fault = "none"
        /\ Persisted(t)
        /\ cons[<<"get", k>>].resp = "204"

\* The request q comes without a session, or from a user who does not own
\* its conversation, which is private.
Unentitled(q) ==
    \/ q.session = NoSession
    \/ /\ q.hasChatId /\ chats[q.chat] # Null
       /\ chats[q.chat].visibility = "private"
       /\ chats[q.chat].userId # q.session

\* The response carries stream chunks or a persisted turn.
HasContent(consumer) ==
    \/ consumer.resp \in {"stream", "restored"}
    \/ consumer.got # <<>>
    \/ consumer.queue # <<>>

Rejected(consumer) ==
    consumer.state = "closed" /\ consumer.resp \in {"400", "401", "403"}

C20_FailedReadAdmits ==
    [][\A t \in Turns :
        (/\ turns[t].pc = "idle"
         /\ turns'[t].pc # "idle"
         /\ turns'[t].status \notin {400, 401}
         /\ ~turns'[t].readOk)
        => (/\ turns'[t].pc = "admitted"
            /\ turns'[t].used = 0
            /\ turns'[t].status = 0)]_vars

\* C20 witness: a user whose recorded usage of the day is over the quota of
\* the class, on a driver whose results carry rows, was admitted and answered
\* 200 because the ledger read failed.
C20_Witness ==
    \E t \in Turns :
        /\ ~turns[t].readOk
        /\ turns[t].session \in Users
        /\ turns[t].status = 200
        /\ resultShape = "rows"
        /\ TotalOf(InWindow(turns[t].session)) > StatedQuota(turns[t].session)

\* C19: a regular user with 19,999 tokens in the trailing 24 hours who sends
\* a turn is admitted; once the usage of that turn is recorded, the next
\* admission check for the user, made while the records are inside the
\* window, is denied.
C19_AdmittedThenDenied ==
    [][/\ \A t \in StreamTurns :
            (/\ turns[t].pc = "idle" /\ turns'[t].pc # "idle"
             /\ turns'[t].session = "reg"
             /\ TotalOf(InWindow("reg")) = StatedQuota("reg") - 1)
            => turns'[t].pc = "admitted"
       /\ (/\ lastSum' # lastSum
           /\ lastSum'.user = "reg"
           /\ \E t \in StreamTurns : UsageRecords(t) = 1
           /\ TotalOf(InWindow("reg")) >= StatedQuota("reg"))
          => lastSum'.status = 429]_vars

(***************************************************************************)
(* Claims about failures inside a turn.                                    *)
(***************************************************************************)
\* The usage records written for turn t carry the counts the provider
\* reported for the exchange.
UsageAsReported(t) ==
    \A i \in 1..Len(usage) :
        usage[i].turn = t
        => \E rep \in UsageReports :
              /\ usage[i].prompt_tokens = rep.promptTokens
              /\ usage[i].completion_tokens = rep.completionTokens

\* C21: the finalizer attempts its two writes independently: when the
\* generation was drained and persisting the assistant turn failed, the
\* usage record of the exchange is still written, with the reported counts.
C21_UsageDespiteFailedTurn ==
    \A t \in StreamTurns :
        (gens[t].state = "finished" /\ gens[t].fault = "saveMessages")
        => (UsageRecords(t) = 1 /\ UsageAsReported(t))

\* An error event is among what the generation of turn t wrote or what a
\* consumer of its stream was sent.
ErrorSeen(t) ==
    \/ \E i \in 1..Len(gens[t].out) : gens[t].out[i] = ErrorEvent
    \/ \E c \in ConsumerIds :
          /\ cons[c].sid = t
          /\ \/ \E i \in 1..Len(cons[c].got) : cons[c].got[i] = ErrorEvent
             \/ \E i \in 1..Len(cons[c].queue) : cons[c].queue[i] = ErrorEvent

\* The memory write of turn t was attempted and left no fragment.
MemoryWriteFailed(t) ==
    /\ turns[t].hasText
    /\ \E i \in 1..Len(messages) : messages[i].turn = t /\ messages[i].role = "user"
    /\ \A i \in 1..Len(memories) : memories[i].turn # t

\* C22: a failed memory write (embedding or insert) does not fail the turn:
\* the handler goes on to create the stream handle and start the
\* generation; and a failed usage insert leaves the generation finished,
\* the assistant turn persisted and no error event with any consumer.
C22_SideWritesNeverFailTurn ==
    [][\A t \in StreamTurns :
        /\ (/\ turns[t].pc = "admitted" /\ turns'[t].pc # "admitted"
            /\ MemoryWriteFailed(t)')
           => (turns'[t].pc = "persisted" /\ turns'[t].status = 0)
        /\ (/\ gens[t].state = "running" /\ gens'[t].fin = 1
            /\ gens'[t].fault = "recordUsage")
           => (/\ gens'[t].state = "finished"
               /\ AssistantTurns(t)' = 1
               /\ ~ErrorSeen(t)'
               /\ turns'[t].status = 200)]_vars

\* C22 witness: the memory write of a turn failed, its stream handle was
\* created, its generation ran to the end and was read in full by the
\* requester, the usage insert failed, and the assistant turn is persisted.
C22_Witness ==
    \E t \in StreamTurns :
        /\ MemoryWriteFailed(t)
        /\ \E i \in 1..Len(streams) : streams[i].id = t
        /\ gens[t].state = "finished" /\ gens[t].fault = "recordUsage"
        /\ Len(gens[t].out) = MaxChunks
        /\ AssistantTurns(t) = 1 /\ UsageRecords(t) = 0
        /\ cons[<<"post", t>>].state = "closed"
        /\ cons[<<"post", t>>].got = gens[t].out

(***************************************************************************)
(* Claims about the assembled instruction.                                 *)
(***************************************************************************)
\* The turn's handler has assembled an instruction and answered.
Assembled(t) == turns[t].status = 200

\* The blocks of an instruction that are not the memory block.
BaseBlocks(system) ==
    SelectSeq(system, LAMBDA b : b[1] # "memory")

MemoryBlocks(system) ==
    SelectSeq(system, LAMBDA b : b[1] = "memory")

\* The text the base step is to start with: the active row's text if the
\* read of the store gave one, the fallback otherwise.
StoredOrFallback(t) ==
    IF ActiveIds(prompts) # {} /\ turns[t].asm.fetchFault = "none"
    THEN JString(getActiveAdminPrompt(prompts).text)
    ELSE JString(FallbackInstruction)

\* C23: the instruction of the assembler's base step is exactly the base
\* text and the hints block, followed by the artifact instructions if and
\* only if the model is not the reasoning variant; the base text is the
\* stored prompt text when the store returns one and the fallback when it
\* returns none, a record without text, or throws, and the turn is answered
\* all the same.
C23_BaseInstruction ==
    [][\A t \in StreamTurns :
        (turns[t].pc = "handle" /\ turns'[t].pc # "handle")
        => LET base == BaseBlocks(turns'[t].system)
               a == turns'[t].asm
           IN  /\ turns'[t].status = 200
               /\ base = <<<<"base", StoredOrFallback(t)'>>, <<"hints", a.hints>> >>
                         \o (IF a.model = "chat-model-reasoning" THEN <<>>
                             ELSE <<artifactsPrompt>>)
               /\ SubSeq(turns'[t].system, 1, Len(base)) = base]_vars

\* C23 witness: with an active prompt stored, an instruction for the
\* reasoning variant was assembled from the fallback because the fetch
\* threw, and it has no artifact instructions.
C23_Witness ==
    \E t \in StreamTurns :
        /\ Assembled(t)
        /\ ActiveIds(prompts) # {}
        /\ turns[t].asm.fetchFault = "throws"
        /\ turns[t].asm.model = "chat-model-reasoning"
        /\ BaseBlocks(turns[t].system)
              = << <<"base", JString(FallbackInstruction)>>,
                   <<"hints", turns[t].asm.hints>> >>

\* The retrieval of the turn failed: the query could not be embedded or the
\* nearest-neighbour lookup failed.
RetrievalFailed(a) == ~a.embedOk \/ ~a.lookupOk

\* The user of the turn owns a stored fragment.
OwnsFragment(t) ==
    \E i \in 1..Len(memories) : memories[i].user_id = turns[t].session

\* C24: when the embedding service or the nearest-neighbour lookup fails
\* during memory retrieval, the assembled instruction is exactly the base
\* instruction with no memory block, the request is answered and the
\* generation is started.
C24_FailedRetrievalGivesBase ==
    [][\A t \in StreamTurns :
        (/\ turns[t].pc = "handle" /\ turns'[t].pc # "handle"
         /\ turns[t].hasText
         /\ RetrievalFailed(turns'[t].asm))
        => /\ turns'[t].system
                = systemPrompt(Fetched(prompts, turns'[t].asm.fetchFault),
                               turns'[t].asm.model, turns'[t].asm.hints)
           /\ MemoryBlocks(turns'[t].system) = <<>>
           /\ turns'[t].status = 200
           /\ gens'[t].state = "running"
           /\ <<"generate", t>> \in calls']_vars

\* C24 witness: a user who owns stored fragments asked with text, the
\* lookup failed, and the instruction assembled is the base one.
C24_Witness ==
    \E t \in StreamTurns :
        /\ Assembled(t)
        /\ turns[t].hasText
        /\ OwnsFragment(t)
        /\ turns[t].asm.embedOk /\ ~turns[t].asm.lookupOk
        /\ MemoryBlocks(turns[t].system) = <<>>
        /\ gens[t].state = "running"

\* The user of the turn owns a fragment that some other turn or an earlier
\* session stored.
OwnsEarlierFragment(t) ==
    \E i \in 1..Len(memories) :
        memories[i].user_id = turns[t].session /\ memories[i].turn # t

\* C25: the instruction assembled for a turn with query text by a user who
\* had no stored fragment before that turn contains no block of relevant
\* past context.
C25_NoContextWithoutHistory ==
    \A t \in StreamTurns :
        (Assembled(t) /\ turns[t].hasText /\ ~OwnsEarlierFragment(t))
        => MemoryBlocks(turns[t].system) = <<>>

\* The fragments of the store that the user owns, in the store's order.
OwnRows(rows, userId) == SelectSeq(rows, LAMBDA r : r.user_id = userId)

\* Texts of the fragments that the user owns.
OwnContents(rows, userId) ==
    {rows[i].content : i \in {j \in 1..Len(rows) : rows[j].user_id = userId}}

\* The texts of the memory block of an instruction, none if it has no block.
BlockContents(system) ==
    IF MemoryBlocks(system) = <<>> THEN <<>> ELSE MemoryBlocks(system)[1][2]

\* C26: the memory block is built only from fragments owned by the
\* requesting user, at most five, the nearest to the query in ascending
\* distance; the instruction assembled is the one assembled when the store
\* holds no fragment of any other user.
C26_OwnNearestFragmentsOnly ==
    [][\A t \in StreamTurns :
        (turns[t].pc = "handle" /\ turns'[t].pc # "handle")
        => LET user == turns[t].session
               got == BlockContents(turns'[t].system)
               own == OwnContents(memories, user)
           IN  /\ \A j \in 1..Len(got) : got[j] \in own
               /\ Len(got) <= MemoryLimit
               /\ \A j \in 1..(Len(got) - 1) :
                      Distance(got[j], t) <= Distance(got[j + 1], t)
               /\ \A c \in own \ {got[j] : j \in 1..Len(got)} :
                      \/ got = <<>>
                      \/ /\ Len(got) = MemoryLimit
                         /\ Distance(got[Len(got)], t) <= Distance(c, t)
               /\ turns'[t].system
                    = finalSystemPrompt(turns[t], t, turns'[t].asm, prompts,
                                        OwnRows(memories, user))]_vars

\* C26 witness: an instruction was assembled with a block of five texts for
\* a user who owns more than five fragments, while another user owns one
\* closer to the query than the last text of the block.
C26_Witness ==
    \E t \in StreamTurns :
        /\ Assembled(t)
        /\ Len(BlockContents(turns[t].system)) = MemoryLimit
        /\ Cardinality(OwnContents(memories, turns[t].session)) > MemoryLimit
        /\ \E i \in 1..Len(memories) :
               /\ memories[i].user_id # turns[t].session
               /\ Distance(memories[i].content, t)
                    < Distance(BlockContents(turns[t].system)[MemoryLimit], t)

(***************************************************************************)
(* Claims about the guards of the routes.                                  *)
(***************************************************************************)
\* The step is a request to an admin route.
AdminRequestStep == turns' = turns /\ lastReq'.op # "none"

\* The requester has no session or is not an administrator.
NotAdministrator(session) ==
    session = NoSession \/ UserType(session) # "admin"

NotAText(v) == v.t # "string" \/ v.s \in {"", "  "}

\* The text of the request fails validation: on create and on the master
\* prompt's update it must be there, on update it may be absent.
InvalidText(req) ==
    CASE req.op \in {"create", "masterUpdate"} ->
            req.text = JUndefined \/ NotAText(req.text)
      [] req.op = "update" -> req.text # JUndefined /\ NotAText(req.text)
      [] OTHER -> FALSE

\* The active flag of the request is there and is not a boolean.
InvalidFlag(req) ==
    /\ req.op \in {"create", "update"}
    /\ req.isActive # JUndefined
    /\ req.isActive.t # "boolean"

\* C28: an administrator's create or update whose text is missing (on
\* create), not a string, empty or whitespace-only, or whose active flag is
\* not a boolean, and a turn request whose payload is malformed, are
\* answered 400 and nothing is written to any store.
C28_InvalidRejectedUnwritten ==
    [][/\ (/\ AdminRequestStep
           /\ ~NotAdministrator(lastReq'.session)
           /\ InvalidText(lastReq') \/ InvalidFlag(lastReq'))
          => /\ lastReq'.status = 400
             /\ lastReq'.called = {}
             /\ UNCHANGED <<prompts, nextPromptId, cache>>
       /\ \A t \in StreamTurns :
            (turns[t].pc = "idle" /\ turns'[t].pc # "idle")
            => /\ ~turns'[t].bodyOk
                    => turns'[t].status = 400 /\ turns'[t].pc = "done"
               /\ turns'[t].status = 400
                    => UNCHANGED <<storeVars, calls, usage, streamVars>>]_vars

\* C28 witness: an administrator's update of a stored prompt with a
\* whitespace-only text was answered 400, and so was a malformed turn
\* request.
C28_Witness ==
    /\ lastReq.op = "update"
    /\ lastReq.session = "adm"
    /\ lastReq.text = JString("  ")
    /\ lastReq.id \in DOMAIN prompts
    /\ lastReq.status = 400
    /\ \E t \in StreamTurns :
          ~turns[t].bodyOk /\ turns[t].status = 400 /\ turns[t].pc = "done"

\* The handler of the turn is about to look up the conversation, which
\* exists and is another user's.
AsksForAnothers(t) ==
    /\ turns[t].pc = "admitted"
    /\ chats[turns[t].chat] # Null
    /\ chats[turns[t].chat].userId # turns[t].session

\* The turn has left no row in any store, made no embedding or model call,
\* and has no generation and no stream.
NothingDone(t) ==
    /\ ~WrittenBy(t)
    /\ ~CalledBy(t)
    /\ gens[t] = NoGen
    /\ broker[t] = NoStream

ChunksBefore(t) == SelectSeq(gens[t].out, LAMBDA ev : ev # ErrorEvent)

\* C30: a model failure after the generation has started does not fail the
\* turn request: its response stays a successful stream that carries every
\* chunk emitted before the failure, followed by one error event, which is
\* the last event.
C30_FailureEndsStreamInBand ==
    \A t \in StreamTurns :
        gens[t].state = "failed"
        => LET c == <<"post", t>>
           IN  /\ turns[t].status = 200
               /\ cons[c].resp = "stream"
               /\ gens[t].out = ChunksBefore(t) \o <<ErrorEvent>>
               /\ cons[c].state = "open"
                    => /\ cons[c].got \o Pending(c) = gens[t].out
                       /\ cons[c].queue = Pending(c) \o <<EndEvent>>
               /\ cons[c].state = "closed" => cons[c].got = gens[t].out

(***************************************************************************)
(* Claims about versions, handles and the active prompt.                   *)
(***************************************************************************)
\* C31: the version of a prompt increments only when its text changes: an
\* accepted update that supplies the text the row already has leaves the
\* version as it was.
C31_VersionOnlyOnTextChange ==
    [][(/\ lastReq'.op = "update"
        /\ lastReq'.status = 200
        /\ lastReq'.id \in DOMAIN prompts
        /\ lastReq'.text # JUndefined
        /\ prompts'[lastReq'.id].text = prompts[lastReq'.id].text)
       => prompts'[lastReq'.id].version = prompts[lastReq'.id].version]_vars

\* C32: the only producer ever registered with the broker for a handle is
\* the generation of the turn that created the handle: a reconnect request
\* never registers a producer, and the requester of the turn is never left
\* following a stream that is not its own generation's.
C32_OnlyTurnsProduce ==
    \A s \in StreamTurns :
        broker[s].state # "absent"
        => /\ broker[s].by = "post"
           /\ broker[s].src = "turn"

\* The handle of the conversation created last, as the table has it.
LatestHandle(chatId) ==
    LET at == {i \in 1..Len(streams) : streams[i].chatId = chatId}
    IN  streams[CHOOSE i \in at : \A j \in at : j <= i].id

\* The reconnect request k is answered in this step, past its early
\* returns.
ReconnectLooksUp(k) ==
    /\ cons[<<"get", k>>].state = "free"
    /\ cons'[<<"get", k>>].state # "free"
    /\ cons'[<<"get", k>>].resp \notin {"204", "400", "401", "403", "404"}

\* C33: a reconnect request attaches to the handle created most recently
\* for the conversation and touches the stream of no earlier handle, and no
\* step changes or removes a handle that exists.
C33_ReconnectTakesLatestHandle ==
    [][/\ Len(streams') >= Len(streams)
       /\ SubSeq(streams', 1, Len(streams)) = streams
       /\ \A k \in Reconnects :
            ReconnectLooksUp(k)
            => LET c == cons'[<<"get", k>>]
                   latest == LatestHandle(c.req.chat)
               IN  /\ c.resp = "stream" => c.sid = latest
                   /\ \A s \in DOMAIN broker :
                          s # latest => broker'[s] = broker[s]
                   /\ broker[latest].state # "done" => c.resp = "stream"]_vars

\* C33 witness: the conversation has two handles, the stream of the earlier
\* one is still live, and a reconnect request is attached to the later one.
C33_Witness ==
    \E k \in Reconnects :
        /\ Len(streams) = 2
        /\ broker[EarlierTurn].state = "live"
        /\ cons[<<"get", k>>].resp = "stream"
        /\ cons[<<"get", k>>].sid = streams[2].id
        /\ cons[<<"get", k>>].sid # EarlierTurn

\* C34: the read of the active prompt returns none when no row is active,
\* and otherwise the text and version of the active row created last, also
\* when several rows are active; a read that fails in storage returns none.
C34_LatestActiveOrNone ==
    lastReq.op = "getActive"
    => IF ~lastReq.readOk \/ ~(\E i \in DOMAIN prompts : prompts[i].active)
       THEN lastReq.result = Null
       ELSE \E i \in DOMAIN prompts :
               /\ prompts[i].active
               /\ \A j \in DOMAIN prompts :
                      prompts[j].active => prompts[j].createdAt <= prompts[i].createdAt
               /\ lastReq.result = [text |-> prompts[i].text,
                                    version |-> prompts[i].version]

\* C34 witness: two rows of different texts are active and the read has
\* returned the later one.
C34_Witness ==
    /\ lastReq.op = "getActive"
    /\ lastReq.readOk
    /\ \E i, j \in DOMAIN prompts :
          /\ i < j /\ prompts[i].active /\ prompts[j].active
          /\ prompts[i].text # prompts[j].text
          /\ lastReq.result.text = prompts[j].text


\* Rows of the message, vote and stream tables that name the conversation.
RowsNaming(chatId, msgs, vts, strs) ==
    {<<"message", i>> : i \in {j \in 1..Len(msgs) : msgs[j].chatId = chatId}}
    \cup {<<"vote", v>> : v \in {w \in vts : w.chatId = chatId}}
    \cup {<<"stream", i>> : i \in {j \in 1..Len(strs) : strs[j].chatId = chatId}}

\* A step of the delete request of session d.
DeleteStepOf(d) == deletes'[d] # deletes[d]

RequestedByOwner(d, chatId) ==
    /\ chatId \in ChatIds
    /\ chats[chatId] # Null
    /\ chats[chatId].userId = d

\* C35: when a delete of a conversation answers 200 it was requested by the
\* owner, the conversation row is gone and no message, vote or stream row
\* names the conversation, whatever turns, votes and other deletes ran beside
\* it; and no step of a delete requested by anyone but the owner changes a
\* row of any of the four tables.
C35_OwnerDeleteRemovesAll ==
    [][\A d \in DeleteSessions :
          /\ (DeleteStepOf(d) /\ deletes'[d].status = 200)
                => /\ RequestedByOwner(d, deletes'[d].id)
                   /\ chats'[deletes'[d].id] = Null
                   /\ RowsNaming(deletes'[d].id, messages', votes', streams') = {}
          /\ (DeleteStepOf(d) /\ ~RequestedByOwner(d, deletes'[d].id))
                => UNCHANGED <<storeVars, votes>>]_vars

C35_Witness ==
    /\ deletes["reg"].status = 200
    /\ deletes["stu"].status = 403
    /\ chats["c1"] = Null
    /\ gens[1].state = "finished" /\ gens[1].fault = "none"
    /\ RowsNaming("c1", messages, votes, streams) = {}


\* C36: an administrator's update that sets active to true on an id matching
\* no row is answered 404 and leaves every stored row as it was, so a row
\* that was active is still active.
C36_MissingIdLeavesStore ==
    [][(/\ lastReq'.op = "update"
        /\ lastReq'.session = "adm"
        /\ lastReq'.isActive = JBoolean(TRUE)
        /\ lastReq'.status # 400
        /\ lastReq'.id \notin DOMAIN prompts)
       => (lastReq'.status = 404 /\ prompts' = prompts)]_vars

\* What an assembly reads when it goes to storage.
StoredActiveText ==
    LET row == getActiveAdminPrompt(prompts)
    IN  IF row = Null THEN FallbackInstruction ELSE row.text

\* C37: with requests handled one at a time, every assembler read yields the
\* text of the row getActive() returns from storage at that moment, or the
\* fallback instruction when it returns none, whatever admin requests came
\* before; the cache never serves another text.
C37_ReadMatchesStorage ==
    [][lastReq'.op = "assemble" => lastReq'.result = StoredActiveText]_vars


\* C38: an assembler read that missed the cache and an admin mutation that
\* changed the active prompt and invalidated the cache have both finished,
\* in whatever order their steps were taken: the cache does not hold the
\* prompt that was active before the mutation.
C38_NoStaleInstall ==
    (/\ flights.read.pc = "done" /\ flights.read.missed
     /\ flights.write.pc = "done" /\ flights.write.invalidates
     /\ flights.write.before # Null
     /\ getActiveAdminPrompt(prompts) # flights.write.before)
    => cache # Cached(flights.write.before)


\* The most tokens one generation is recorded with.
GenerationCost ==
    LET costs == {rep.promptTokens + rep.completionTokens : rep \in UsageReports}
    IN  CHOOSE c \in costs : \A e \in costs : e <= c

\* C39: whatever the interleaving of a user's concurrent turn requests, the
\* usage recorded for the user in the trailing 24 hours never exceeds the
\* quota of the user's class by more than the token cost of one generation
\* (stated for a ledger whose reads report the recorded sum).
C39_OvershootBounded ==
    resultShape = "rows"
    => TotalOf(InWindow("reg")) <= StatedQuota("reg") + GenerationCost

====
